---------------------------- MODULE Spec2Model ----------------------------
(***************************************************************************)
(* State-machine model of the master-data-sync batch importers:            *)
(*   src/logistics/logistics_data_importer_script.py   (script "L")        *)
(*   src/logistics/insert_choke_points_cargo_types.py  (script "S")        *)
(*   src/raw_material_importer_script.py               (script "R")        *)
(* A string is a sequence of one-character strings, a CSV cell that pandas *)
(* reads as missing is NaN, a row is a record column -> cell, a data frame *)
(* is a sequence of rows, a table is a set of rows, and a surrogate key    *)
(* (uuid) is a fresh natural number.                                       *)
(***************************************************************************)
EXTENDS Integers, Sequences, FiniteSets, TLC

VARIABLES
    files,      \* the CSV files on disk: file name -> sequence of rows
    db,         \* the store as the current connection sees it: table -> rows
    snap,       \* the store as of the last commit (what a rollback restores)
    aborted,    \* the open PostgreSQL transaction has failed a statement
    nextId,     \* the next fresh uuid
    script,     \* the script being run: "L", "S", "R" or "none"
    pc,         \* the step of its main() the run is at
    idx,        \* the index of the next row of the step's data frame
    run,        \* how many runs have been started
    ids,        \* the name -> uuid dictionaries of retrieve_ids (script R)
    hist        \* history: what the steps did, for stating the properties

vars == <<files, db, snap, aborted, nextId, script, pc, idx, run, ids, hist>>

-----------------------------------------------------------------------------
(* Bounds of the model *)

\* how many times a script is run one after another
MaxRuns == 2
\* rows of the CSV file the inputs vary
MaxRows == 2

-----------------------------------------------------------------------------
(* Strings *)

NaN == <<"NaN">>
None == <<"None">>
Dash == <<"-">>

IsStr(v) == v # NaN /\ v # None

Upper == {"A", "B", "R"}

LowerChar(c) ==
    CASE c = "A" -> "a"
      [] c = "B" -> "b"
      [] c = "R" -> "r"
      [] OTHER -> c

IsAlnum(c) == c \notin {" ", "-", ",", "/"}

RECURSIVE LStrip(_)
LStrip(s) == IF s # <<>> /\ Head(s) = " " THEN LStrip(Tail(s)) ELSE s

RECURSIVE RStrip(_)
RStrip(s) ==
    IF s # <<>> /\ s[Len(s)] = " " THEN RStrip(SubSeq(s, 1, Len(s) - 1)) ELSE s

\* str.strip()
Strip(s) == RStrip(LStrip(s))

\* str.isspace(): non-empty and all whitespace
IsSpace(s) == s # <<>> /\ \A i \in 1..Len(s) : s[i] = " "

RECURSIVE SplitFrom(_, _, _)
SplitFrom(s, sep, cur) ==
    IF s = <<>> THEN <<cur>>
    ELSE IF Head(s) = sep THEN <<cur>> \o SplitFrom(Tail(s), sep, <<>>)
    ELSE SplitFrom(Tail(s), sep, Append(cur, Head(s)))

\* str.split(sep)
Split(s, sep) == SplitFrom(s, sep, <<>>)

RECURSIVE DashRuns(_)
DashRuns(s) ==
    IF Len(s) < 2 THEN s
    ELSE IF s[1] = "-" /\ s[2] = "-" THEN DashRuns(Tail(s))
    ELSE <<Head(s)>> \o DashRuns(Tail(s))

RECURSIVE StripDash(_)
StripDash(s) ==
    IF s # <<>> /\ Head(s) = "-" THEN StripDash(Tail(s))
    ELSE IF s # <<>> /\ s[Len(s)] = "-" THEN StripDash(SubSeq(s, 1, Len(s) - 1))
    ELSE s

\* slugify(x): lower case, every run of non-alphanumerics becomes one "-",
\* no "-" at either end
Slugify(s) ==
    StripDash(DashRuns([i \in 1..Len(s) |->
        IF IsAlnum(s[i]) THEN LowerChar(s[i]) ELSE "-"]))

-----------------------------------------------------------------------------
(* pandas *)

SeqToSet(s) == {s[i] : i \in 1..Len(s)}

RECURSIVE SelectFrom(_, _, _)
SelectFrom(df, K, i) ==
    IF i > Len(df) THEN <<>>
    ELSE IF i \in K THEN <<df[i]>> \o SelectFrom(df, K, i + 1)
    ELSE SelectFrom(df, K, i + 1)

\* the rows of df whose index is in K, in df's order
SelectIdx(df, K) == SelectFrom(df, K, 1)

\* df[cols]
Project(df, cols) == [i \in 1..Len(df) |-> [c \in cols |-> df[i][c]]]

\* df.dropna(how="all")
DropNaAll(df) ==
    SelectIdx(df, {i \in 1..Len(df) : \E c \in DOMAIN df[i] : df[i][c] # NaN})

\* df.dropna(subset=cols)
DropNaSubset(df, cols) ==
    SelectIdx(df, {i \in 1..Len(df) : \A c \in cols : df[i][c] # NaN})

RECURSIVE DropDupFrom(_, _, _)
DropDupFrom(df, cols, seen) ==
    IF df = <<>> THEN <<>>
    ELSE LET k == [c \in cols |-> Head(df)[c]] IN
         IF k \in seen THEN DropDupFrom(Tail(df), cols, seen)
         ELSE <<Head(df)>> \o DropDupFrom(Tail(df), cols, seen \cup {k})

\* df.drop_duplicates(subset=cols): the first row of each key is kept
DropDuplicates(df, cols) == DropDupFrom(df, cols, {})

\* df.rename(columns={old: new})
Rename(df, old, new) ==
    [i \in 1..Len(df) |->
        [c \in (DOMAIN df[i] \ {old}) \cup {new} |->
            IF c = new THEN df[i][old] ELSE df[i][c]]]

-----------------------------------------------------------------------------
(* The store: PostgreSQL behind SQLAlchemy (scripts L and S) and behind the   *)
(* Supabase REST client (script R)                                            *)

Tables ==
    {"choke_points", "cargo_types", "choke_points_cargo_types", "routes",
     "routes_choke_points", "country_ports", "countries", "industries",
     "countries_port_industries", "port_cargo_type", "routes_ports",
     "applications", "raw_materials", "industries_applications",
     "raw_materials_applications", "raw_materials_countries"}

\* the columns declared unique=True in the Table definitions
UniqueCols(t) ==
    CASE t = "choke_points" -> {"chokepoint_name"}
      [] t = "cargo_types" -> {"cargo_type_name"}
      [] t = "country_ports" -> {"port_name"}
      [] t = "countries" -> {"country_name"}
      [] t = "industries" -> {"industry_name"}
      [] OTHER -> {}

\* the insert would break a unique constraint of table t
Violates(d, t, row) ==
    \E c \in UniqueCols(t) \cap DOMAIN row :
        \E r \in d[t] : c \in DOMAIN r /\ r[c] = row[c]

\* select ... where col == val for every col of key: the matching rows
Select(d, t, key) ==
    {r \in d[t] : \A c \in DOMAIN key : c \in DOMAIN r /\ r[c] = key[c]}

\* fetchone()[0] of select(t.c.uuid).where(t.c[col] == val); 0 stands for
\* the None of an empty result (uuids start at 1)
FetchUuid(d, t, col, val) ==
    LET rows == Select(d, t, [c \in {col} |-> val]) IN
    IF rows = {} THEN 0 ELSE (CHOOSE r \in rows : TRUE).uuid

\* A session is what a step's statements act on: the tables, the uuid
\* generator, whether the transaction is in the failed state, the exception
\* the last statement raised ("none" if it returned), and the step's log.
Session(d, n, a) == [db |-> d, nextId |-> n, aborted |-> a, err |-> "none", ev |-> {}]

Log(st, e) == [st EXCEPT !.ev = @ \cup {e}]

\* uuid.uuid4() evaluated by the script and not by the insert
LocalUuid(st) == [st EXCEPT !.nextId = @ + 1]

\* connection.execute(insert(t).values(row)) inside a transaction: the uuid
\* column is filled by its default; a unique violation raises IntegrityError
\* and leaves the transaction failed; in a failed transaction PostgreSQL
\* refuses every statement (InFailedSqlTransaction).
ExecInsert(st, t, row) ==
    IF st.aborted THEN [st EXCEPT !.err = "InternalError"]
    ELSE IF Violates(st.db, t, row)
    THEN [st EXCEPT !.aborted = TRUE, !.err = "IntegrityError"]
    ELSE [st EXCEPT !.db[t] = @ \cup {row @@ [uuid |-> st.nextId]},
                    !.nextId = @ + 1,
                    !.err = "none"]

\* an except clause that catches the exception and goes on
Caught(st) == [st EXCEPT !.err = "none"]

\* connection.execute(select(...)): raises in a failed transaction
SelectRaises(st) == st.aborted

\* an exception that no except clause of the step catches
Raise(st, what) == [st EXCEPT !.err = what]

\* supabase.table(t).insert(row).execute(): one request, committed on its
\* own; on a constraint violation the response carries no data
RestInsert(st, t, row) ==
    IF Violates(st.db, t, row) THEN st
    ELSE [st EXCEPT !.db[t] = @ \cup {row @@ [uuid |-> st.nextId]},
                    !.nextId = @ + 1]

-----------------------------------------------------------------------------
(* Script L and S: the generic entity loader *)

\* row_data = {k: str(v).strip() for k, v in row.items() if pd.notna(v)}
RowData(row) ==
    [k \in {c \in DOMAIN row : row[c] # NaN} |-> Strip(row[k])]

\* insert_data_into_table, were a row that breaks a unique constraint written
\* over the stored row (an upsert)
UpsertDataRow(st, t, row, ucols) ==
    LET row_data == RowData(row)
        old == {r \in st.db[t] : \E c \in UniqueCols(t) \cap DOMAIN row_data :
                                    c \in DOMAIN r /\ r[c] = row_data[c]}
    IN
    IF ~(ucols \subseteq DOMAIN row_data) THEN Raise(st, "KeyError")
    ELSE IF SelectRaises(st) THEN Raise(st, "InternalError")
    ELSE IF Select(st.db, t, [c \in ucols |-> row_data[c]]) # {}
    THEN Log(st, <<"duplicate", t, row_data>>)
    ELSE IF old # {}
    THEN Log([st EXCEPT !.db[t] = (@ \ old) \cup {row_data @@ [uuid |-> r.uuid] : r \in old}],
             <<"IntegrityError", t, row_data>>)
    ELSE LET r == ExecInsert(st, t, row_data) IN
         IF r.err = "none" THEN Log(r, <<"inserted", t, row_data>>)
         ELSE Log(Caught(r), <<r.err, t, row_data>>)

\* One iteration of insert_data_into_table's loop: look the row up by its
\* unique columns and insert it when no row matches.
InsertDataRow(st, t, row, ucols) ==
    LET row_data == RowData(row) IN
    IF ~(ucols \subseteq DOMAIN row_data) THEN Raise(st, "KeyError")
    ELSE IF SelectRaises(st) THEN Raise(st, "InternalError")
    ELSE IF Select(st.db, t, [c \in ucols |-> row_data[c]]) # {}
    THEN Log(st, <<"duplicate", t, row_data>>)
    ELSE LET r == ExecInsert(st, t, row_data) IN
         IF r.err = "none" THEN Log(r, <<"inserted", t, row_data>>)
         ELSE Log(Caught(r), <<r.err, t, row_data>>)

\* pd.to_numeric(v, errors="coerce") on a cell
NumStrs == {<<"1">>, <<"2">>}
ToNumeric(v) == IF v \in NumStrs THEN v ELSE NaN

\* Series.str.strip() on a cell
StrStrip(v) == IF v = NaN THEN NaN ELSE Strip(v)

File1Cols ==
    {"primary_chokepoints", "latitude", "longitude",
     "vessel_composition_cargo_type",
     "average_annual_number_of_transit_calls",
     "estimated_vessel_numbers_by_cargo_type", "vessel_composition_%"}

\* load_data_from_csv
LoadCsv(f) == DropNaAll(f)

\* main's choke_points_data followed by insert_choke_points' preparation
ChokePointsFrame(f) ==
    LET cols == {"primary_chokepoints", "latitude", "longitude"}
        d0 == DropDuplicates(Project(LoadCsv(f), cols), cols)
        d1 == [i \in 1..Len(d0) |->
                 [chokepoint_name |-> StrStrip(d0[i]["primary_chokepoints"]),
                  latitude |-> ToNumeric(d0[i]["latitude"]),
                  longitude |-> ToNumeric(d0[i]["longitude"])]]
    IN DropNaSubset(d1, {"latitude", "longitude"})

ChokePointsUnique == {"chokepoint_name", "latitude", "longitude"}

\* script S: choke_points_data and insert_choke_points without coordinates
ChokePointsFrameS(f) ==
    LET cols == {"primary_chokepoints"}
        d0 == DropDuplicates(Project(LoadCsv(f), cols), cols)
    IN [i \in 1..Len(d0) |->
          [chokepoint_name |-> StrStrip(d0[i]["primary_chokepoints"])]]

\* main's cargo_types_data followed by insert_cargo_types' renaming
CargoTypesFrame(f) ==
    LET cols == {"vessel_composition_cargo_type"}
    IN Rename(DropDuplicates(Project(LoadCsv(f), cols), cols),
              "vessel_composition_cargo_type", "cargo_type_name")

\* main's junction_data
JunctionFrame(f) ==
    Project(LoadCsv(f), File1Cols \ {"latitude", "longitude"})

\* x.strip() if isinstance(x, str) else x
StripIfStr(v) == IF v = NaN THEN NaN ELSE Strip(v)

\* str(v).strip() if v else None     (a NaN is truthy and prints as "nan")
PayloadStr(v) ==
    IF v = NaN THEN <<"n", "a", "n">> ELSE IF v = <<>> THEN None ELSE Strip(v)

\* The insert of a junction row and its try/except (the end of an iteration of
\* insert_choke_points_cargo_types' loop)
JunctionInsert(st, row, chokepoint, cargo_type, key) ==
    LET junction_row ==
            [cargo_type_id |-> cargo_type,
             choke_point_id |-> chokepoint,
             avg_annual_transit_calls |->
                 PayloadStr(row["average_annual_number_of_transit_calls"]),
             est_vessel_count_by_cargo |->
                 PayloadStr(row["estimated_vessel_numbers_by_cargo_type"]),
             vessel_composition_pct |-> PayloadStr(row["vessel_composition_%"])]
        r == ExecInsert(st, "choke_points_cargo_types", junction_row)
    IN IF r.err = "none"
       THEN Log(r, <<"linked", "choke_points_cargo_types", key>>)
       ELSE Log(Caught(r), <<r.err, "choke_points_cargo_types", key>>)

\* JunctionRow, were a chokepoint or cargo type that is not found an error
\* instead of a skipped row
JunctionRowFatal(st, row) ==
    LET chokepoint_name == StripIfStr(row["primary_chokepoints"])
        cargo_type_name == StripIfStr(row["vessel_composition_cargo_type"])
        chokepoint == FetchUuid(st.db, "choke_points", "chokepoint_name", chokepoint_name)
        cargo_type == FetchUuid(st.db, "cargo_types", "cargo_type_name", cargo_type_name)
    IN
    IF SelectRaises(st) THEN Raise(st, "InternalError")
    ELSE IF chokepoint = 0 \/ cargo_type = 0 THEN Raise(st, "LookupError")
    ELSE JunctionInsert(st, row, chokepoint, cargo_type, <<chokepoint_name, cargo_type_name>>)

\* JunctionRow, were a row skipped whenever an earlier run had skipped it
JunctionRowOnce(st, row) ==
    LET chokepoint_name == StripIfStr(row["primary_chokepoints"])
        cargo_type_name == StripIfStr(row["vessel_composition_cargo_type"])
        chokepoint == FetchUuid(st.db, "choke_points", "chokepoint_name", chokepoint_name)
        cargo_type == FetchUuid(st.db, "cargo_types", "cargo_type_name", cargo_type_name)
        key == <<chokepoint_name, cargo_type_name>>
    IN
    IF SelectRaises(st) THEN Raise(st, "InternalError")
    ELSE IF chokepoint = 0 \/ cargo_type = 0 \/ run > 1
    THEN Log(st, <<"unresolved", "choke_points_cargo_types", key>>)
    ELSE JunctionInsert(st, row, chokepoint, cargo_type, key)

\* One iteration of insert_choke_points_cargo_types' loop (the same code as
\* insert_junction_table of script S).
JunctionRow(st, row) ==
    LET chokepoint_name == StripIfStr(row["primary_chokepoints"])
        cargo_type_name == StripIfStr(row["vessel_composition_cargo_type"])
        chokepoint == FetchUuid(st.db, "choke_points", "chokepoint_name", chokepoint_name)
        cargo_type == FetchUuid(st.db, "cargo_types", "cargo_type_name", cargo_type_name)
        key == <<chokepoint_name, cargo_type_name>>
    IN
    IF SelectRaises(st) THEN Raise(st, "InternalError")
    ELSE IF chokepoint = 0 THEN Log(st, <<"unresolved", "choke_points_cargo_types", key>>)
    ELSE IF cargo_type = 0 THEN Log(st, <<"unresolved", "choke_points_cargo_types", key>>)
    ELSE JunctionInsert(st, row, chokepoint, cargo_type, key)

-----------------------------------------------------------------------------
(* Script L: routes *)

CpCols ==
    <<"chokepoint1", "chokepoint2", "chokepoint3", "chokepoint4", "chokepoint5",
      "chokepoint6", "chokepoint7", "chokepoint8", "chokepoint9", "chokepoint10">>

\* main's routes_data followed by insert_routes' renaming and slug column
RoutesFrame(f) ==
    LET cols == {"route_name", "importance", "market1", "market2"}
        d0 == DropDuplicates(Project(LoadCsv(f), cols), cols)
    IN [i \in 1..Len(d0) |->
          [route_name |-> d0[i]["route_name"],
           category |-> d0[i]["importance"],
           node_1 |-> d0[i]["market1"],
           node_2 |-> d0[i]["market2"],
           slug |-> IF d0[i]["route_name"] # NaN
                    THEN Slugify(d0[i]["route_name"]) ELSE NaN]]

\* the loop over chokepoint1..chokepoint10 of insert_route_chokepoints
RECURSIVE RouteCpLoop(_, _, _, _)
RouteCpLoop(st, row, route_id, i) ==
    IF i > Len(CpCols) THEN st
    ELSE
    LET chokepoint_name == row[CpCols[i]]
        key == <<row["route_name"], chokepoint_name>>
    IN
    IF chokepoint_name = NaN THEN Raise(st, "AttributeError")
    ELSE IF chokepoint_name = <<>> \/ chokepoint_name = Dash \/ IsSpace(chokepoint_name)
    THEN RouteCpLoop(st, row, route_id, i + 1)
    ELSE IF SelectRaises(st) THEN Raise(st, "InternalError")
    ELSE
    LET chokepoint_id == FetchUuid(st.db, "choke_points", "chokepoint_name", chokepoint_name) IN
    IF chokepoint_id = 0
    THEN RouteCpLoop(Log(st, <<"unresolved", "routes_choke_points", key>>), row, route_id, i + 1)
    ELSE LET r == ExecInsert(st, "routes_choke_points",
                             [route_id |-> route_id, choke_point_id |-> chokepoint_id])
         IN IF r.err = "none"
            THEN RouteCpLoop(Log(r, <<"linked", "routes_choke_points", key>>), row, route_id, i + 1)
            ELSE RouteCpLoop(Log(Caught(r), <<r.err, "routes_choke_points", key>>), row, route_id, i + 1)

\* insert_route_chokepoints(route_name, data), without its transaction
RouteChokepointsRow(st, row) ==
    LET route_id == FetchUuid(st.db, "routes", "route_name", row["route_name"]) IN
    IF route_id = 0
    THEN Log(st, <<"unresolved", "routes_choke_points", <<row["route_name"], NaN>>>>)
    ELSE RouteCpLoop(st, row, route_id, 1)

\* the loop over the ports of a route of insert_ports_route_junction_table
RECURSIVE RoutePortLoop(_, _, _, _)
RoutePortLoop(st, route_name, route_uuid, ports_list) ==
    IF ports_list = <<>> THEN st
    ELSE
    LET port_name == Strip(Head(ports_list))
        key == <<route_name, port_name>>
    IN
    IF SelectRaises(st) THEN Raise(st, "InternalError")
    ELSE
    LET port_uuid == FetchUuid(st.db, "country_ports", "port_name", port_name) IN
    IF port_uuid = 0
    THEN RoutePortLoop(Log(st, <<"unresolved", "routes_ports", key>>),
                       route_name, route_uuid, Tail(ports_list))
    ELSE LET r == ExecInsert(st, "routes_ports",
                             [route_id |-> route_uuid, port_id |-> port_uuid])
         IN IF r.err = "none"
            THEN RoutePortLoop(Log(r, <<"linked", "routes_ports", key>>),
                               route_name, route_uuid, Tail(ports_list))
            ELSE RoutePortLoop(Log(Caught(r), <<r.err, "routes_ports", key>>),
                               route_name, route_uuid, Tail(ports_list))

\* One iteration of insert_ports_route_junction_table's loop
RoutePortsRow(st, row) ==
    LET route_name == row["route_name"] IN
    IF row["ports"] = NaN THEN Raise(st, "AttributeError")
    ELSE IF SelectRaises(st) THEN Raise(st, "InternalError")
    ELSE
    LET route_uuid == FetchUuid(st.db, "routes", "route_name", route_name) IN
    IF route_uuid = 0
    THEN Log(st, <<"unresolved", "routes_ports", <<route_name, NaN>>>>)
    ELSE RoutePortLoop(st, route_name, route_uuid, Split(row["ports"], ","))

-----------------------------------------------------------------------------
(* Script L: ports *)

IndustryCols == <<"top1_industry", "top2_industry", "top3_industry">>

CargoCols ==
    <<"annual_vessel_composition1", "annual_vessel_composition2",
      "annual_vessel_composition3", "annual_vessel_composition4",
      "annual_vessel_composition5">>

PctCols ==
    <<"%_of_total_ships1", "%_of_total_ships2", "%_of_total_ships3",
      "%_of_total_ships4", "%_of_total_ships5">>

\* main's unique_ports_data
PortsFrame(f) == DropDuplicates(LoadCsv(f), {"port_name"})

\* main's industries_data
PortIndustriesFrame(f) ==
    DropDuplicates(LoadCsv(f), {"country"} \cup SeqToSet(IndustryCols))

\* insert_ports without its two checks: the port is inserted whether or not
\* its country is found and its name is empty
PortRowUnchecked(st, row) ==
    IF row["country"] = NaN \/ row["port_name"] = NaN
       \/ row["import_percentage_countrys_maritime_trade"] = NaN
       \/ row["export_percentage_countrys_maritime_trade"] = NaN
    THEN Raise(st, "AttributeError")
    ELSE IF SelectRaises(st) THEN Raise(st, "InternalError")
    ELSE
    LET country_name == Strip(row["country"])
        port_data ==
            [port_name |-> Strip(row["port_name"]),
             latitude |-> row["latitude"],
             longitude |-> row["longitude"],
             country_id |-> FetchUuid(st.db, "countries", "country_name", country_name),
             import_percentage_maritime_trade |->
                 Strip(row["import_percentage_countrys_maritime_trade"]),
             export_percentage_maritime_trade |->
                 Strip(row["export_percentage_countrys_maritime_trade"])]
        r == ExecInsert(st, "country_ports", port_data)
    IN IF r.err = "none"
       THEN Log(r, <<"inserted", "country_ports", <<port_data.port_name, country_name>>>>)
       ELSE Log(Caught(r), <<r.err, "country_ports", <<port_data.port_name, country_name>>>>)

\* One iteration of insert_ports' loop
PortRow(st, row) ==
    IF row["country"] = NaN THEN Raise(st, "AttributeError")
    ELSE
    LET country_name == Strip(row["country"]) IN
    IF SelectRaises(st) THEN Raise(st, "InternalError")
    ELSE
    LET country_id == FetchUuid(st.db, "countries", "country_name", country_name) IN
    IF country_id = 0 THEN Log(st, <<"unresolved", "country_ports", <<row["port_name"], country_name>>>>)
    ELSE IF row["port_name"] = NaN
            \/ row["import_percentage_countrys_maritime_trade"] = NaN
            \/ row["export_percentage_countrys_maritime_trade"] = NaN
    THEN Raise(st, "AttributeError")
    ELSE
    LET port_data ==
            [port_name |-> Strip(row["port_name"]),
             latitude |-> row["latitude"],
             longitude |-> row["longitude"],
             country_id |-> country_id,
             import_percentage_maritime_trade |->
                 Strip(row["import_percentage_countrys_maritime_trade"]),
             export_percentage_maritime_trade |->
                 Strip(row["export_percentage_countrys_maritime_trade"])]
    IN
    IF port_data.port_name = <<>>
    THEN Log(st, <<"missing_key", "country_ports", <<row["port_name"], country_name>>>>)
    ELSE LET r == ExecInsert(st, "country_ports", port_data) IN
         IF r.err = "none"
         THEN Log(r, <<"inserted", "country_ports", <<port_data.port_name, country_name>>>>)
         ELSE Log(Caught(r), <<r.err, "country_ports", <<port_data.port_name, country_name>>>>)

\* the loop over industry_list of insert_countries_port_industries
RECURSIVE PortIndustryLoop(_, _, _, _, _)
PortIndustryLoop(st, row, port_name, port_uuid, i) ==
    IF i > Len(IndustryCols) THEN st
    ELSE
    LET industry_name == Strip(row[IndustryCols[i]])
        key == <<port_name, industry_name>>
    IN
    IF industry_name = <<>> \/ industry_name = Dash
    THEN PortIndustryLoop(st, row, port_name, port_uuid, i + 1)
    ELSE IF SelectRaises(st) THEN Raise(st, "InternalError")
    ELSE
    LET industry_result == FetchUuid(st.db, "industries", "industry_name", industry_name)
        \* industry_uuid = str(uuid.uuid4()), which the insert does not use
        local == LocalUuid(st)
        ins == IF industry_result = 0
               THEN ExecInsert(local, "industries", [industry_name |-> industry_name])
               ELSE st
        industry_uuid == IF industry_result = 0 THEN st.nextId ELSE industry_result
    IN
    IF ins.err # "none"
    THEN PortIndustryLoop(Log(Caught(ins), <<ins.err, "industries", [industry_name |-> industry_name]>>),
                          row, port_name, port_uuid, i + 1)
    ELSE LET r == ExecInsert(Log(ins, <<"resolved", "industries",
                                        [name |-> industry_name, id |-> industry_uuid]>>),
                             "countries_port_industries",
                             [port_id |-> port_uuid, industry_id |-> industry_uuid])
         IN IF r.err = "none"
            THEN PortIndustryLoop(Log(r, <<"linked", "countries_port_industries", key>>),
                                  row, port_name, port_uuid, i + 1)
            ELSE PortIndustryLoop(Log(Caught(r), <<r.err, "countries_port_industries", key>>),
                                  row, port_name, port_uuid, i + 1)

\* One iteration of insert_countries_port_industries' loop
PortIndustriesRow(st, row) ==
    IF row["port_name"] = NaN \/ \E i \in 1..Len(IndustryCols) : row[IndustryCols[i]] = NaN
    THEN Raise(st, "AttributeError")
    ELSE
    LET port_name == Strip(row["port_name"]) IN
    IF SelectRaises(st) THEN Raise(st, "InternalError")
    ELSE
    LET port_uuid == FetchUuid(st.db, "country_ports", "port_name", port_name) IN
    IF port_uuid = 0
    THEN Log(st, <<"unresolved", "countries_port_industries", <<port_name, NaN>>>>)
    ELSE PortIndustryLoop(st, row, port_name, port_uuid, 1)

\* the loop over cargo_types_list of insert_port_cargo_type
RECURSIVE PortCargoLoop(_, _, _, _, _)
PortCargoLoop(st, row, port_name, port_uuid, i) ==
    IF i > Len(CargoCols) THEN st
    ELSE
    LET cargo_type_name == Strip(row[CargoCols[i]])
        vessel_pct == row[PctCols[i]]
        key == <<port_name, cargo_type_name>>
    IN
    IF cargo_type_name = <<>> \/ cargo_type_name = Dash
    THEN PortCargoLoop(st, row, port_name, port_uuid, i + 1)
    ELSE IF SelectRaises(st) THEN Raise(st, "InternalError")
    ELSE
    LET cargo_type_result == FetchUuid(st.db, "cargo_types", "cargo_type_name", cargo_type_name)
        \* cargo_type_uuid = str(uuid.uuid4()), which the insert does not use
        local == LocalUuid(st)
        ins == IF cargo_type_result = 0
               THEN ExecInsert(local, "cargo_types", [cargo_type_name |-> cargo_type_name])
               ELSE st
        cargo_type_uuid == IF cargo_type_result = 0 THEN st.nextId ELSE cargo_type_result
    IN
    IF ins.err # "none"
    THEN PortCargoLoop(Log(Caught(ins), <<ins.err, "cargo_types", [cargo_type_name |-> cargo_type_name]>>),
                       row, port_name, port_uuid, i + 1)
    ELSE LET r == ExecInsert(Log(ins, <<"resolved", "cargo_types",
                                        [name |-> cargo_type_name, id |-> cargo_type_uuid]>>),
                             "port_cargo_type",
                             [port_id |-> port_uuid,
                              cargo_type_id |-> cargo_type_uuid,
                              vessel_composition_pct |->
                                  IF vessel_pct = NaN THEN <<"n", "a", "n">>
                                  ELSE Strip(vessel_pct)])
         IN IF r.err = "none"
            THEN PortCargoLoop(Log(r, <<"linked", "port_cargo_type", key>>),
                               row, port_name, port_uuid, i + 1)
            ELSE PortCargoLoop(Log(Caught(r), <<r.err, "port_cargo_type", key>>),
                               row, port_name, port_uuid, i + 1)

\* One iteration of insert_port_cargo_type's loop
PortCargoRow(st, row) ==
    IF row["port_name"] = NaN \/ \E i \in 1..Len(CargoCols) : row[CargoCols[i]] = NaN
    THEN Raise(st, "AttributeError")
    ELSE
    LET port_name == Strip(row["port_name"]) IN
    IF SelectRaises(st) THEN Raise(st, "InternalError")
    ELSE
    LET port_uuid == FetchUuid(st.db, "country_ports", "port_name", port_name) IN
    IF port_uuid = 0
    THEN Log(st, <<"unresolved", "port_cargo_type", <<port_name, NaN>>>>)
    ELSE PortCargoLoop(st, row, port_name, port_uuid, 1)

-----------------------------------------------------------------------------
(* Script R: the raw-material importer *)

IdCols == {"industry_id", "application_id", "raw_material_id", "country_id"}

\* cleaned_row_dict = {k: str(v).strip() for k, v in row.to_dict().items()
\*                     if pd.notna(v) and v != ''}      (a uuid is never NaN)
CleanedRow(row) ==
    [k \in {c \in DOMAIN row : c \in IdCols \/ (row[c] # NaN /\ row[c] # <<>>)} |->
        IF k \in IdCols THEN row[k] ELSE Strip(row[k])]

\* relevant_data = data_frame.dropna(how='all').drop_duplicates()
RelevantData(df) ==
    LET kept == SelectIdx(df, {i \in 1..Len(df) :
                    \E c \in DOMAIN df[i] : c \in IdCols \/ df[i][c] # NaN})
    IN IF kept = <<>> THEN <<>> ELSE DropDuplicates(kept, DOMAIN kept[1])

\* One iteration of the loop of script R's insert_data_into_table; ucols = {}
\* stands for unique_columns=None.
RawInsertRow(st, t, row, ucols) ==
    LET cleaned_row_dict == CleanedRow(row) IN
    IF ucols # {} /\ ~(ucols \subseteq DOMAIN cleaned_row_dict) THEN Raise(st, "KeyError")
    ELSE IF ucols # {} /\ Select(st.db, t, [c \in ucols |-> cleaned_row_dict[c]]) # {}
    THEN Log(st, <<"duplicate", t, cleaned_row_dict>>)
    ELSE LET r == RestInsert(st, t, cleaned_row_dict) IN
         IF r.db = st.db THEN Log(r, <<"IntegrityError", t, cleaned_row_dict>>)
         ELSE Log(r, <<"inserted", t, cleaned_row_dict>>)

\* main's filtered_data: the columns of raw_material.csv under their new names
FilteredData(f) ==
    [i \in 1..Len(f) |->
        [raw_material_name |-> f[i]["raw_material_name"],
         application_name |-> f[i]["application1_name"],
         application_percentage |-> f[i]["application1_percentage"],
         application_rank |-> f[i]["application1_rank"],
         industry_name |-> f[i]["industry"]]]

ApplicationsFrame(f) ==
    DropDuplicates(Project(FilteredData(f), {"application_name"}), {"application_name"})

RawMaterialsFrame(f) ==
    DropDuplicates(Project(FilteredData(f), {"raw_material_name"}), {"raw_material_name"})

\* the industries named by a cell: split on "/", stripped
IndustryNames(cell) ==
    LET parts == Split(cell, "/") IN [i \in 1..Len(parts) |-> Strip(parts[i])]

RECURSIVE SetToSeq(_)
SetToSeq(S) ==
    IF S = {} THEN <<>> ELSE LET x == CHOOSE x \in S : TRUE IN <<x>> \o SetToSeq(S \ {x})

\* main's industries_df: the set of non-empty industry names of all rows
IndustriesFrame(f) ==
    LET fd == FilteredData(f)
        names == UNION {IF fd[i]["industry_name"] # NaN /\ Strip(fd[i]["industry_name"]) # <<>>
                        THEN SeqToSet(IndustryNames(fd[i]["industry_name"])) \ {<<>>}
                        ELSE {} : i \in 1..Len(fd)}
        order == SetToSeq(names)
    IN [i \in 1..Len(order) |-> [industry_name |-> order[i]]]

\* retrieve_ids: every dictionary name -> uuid that a response listing the rows
\* of the table in some order can give (a later row of a name replaces an
\* earlier one)
RetrieveIds(d, t, name_column) ==
    LET names == {r[name_column] : r \in {x \in d[t] : name_column \in DOMAIN x}} IN
    {m \in [names -> {r.uuid : r \in d[t]}] :
        \A n \in names : \E r \in d[t] :
            name_column \in DOMAIN r /\ r[name_column] = n /\ r.uuid = m[n]}

\* dict.get(k); 0 stands for None
IdGet(m, k) == IF k \in DOMAIN m THEN m[k] ELSE 0

RECURSIVE FlattenSeq(_)
FlattenSeq(ss) == IF ss = <<>> THEN <<>> ELSE Head(ss) \o FlattenSeq(Tail(ss))

\* main's industries_applications_data
IndustriesApplicationsFrame(f, m) ==
    LET fd == FilteredData(f)
        PerRow(row) ==
            IF row["industry_name"] = NaN THEN <<>>
            ELSE LET ns == IndustryNames(row["industry_name"])
                     application_id == IdGet(m.applications, row["application_name"])
                     ok == {j \in 1..Len(ns) :
                               IdGet(m.industries, ns[j]) # 0 /\ application_id # 0}
                 IN SelectIdx([j \in 1..Len(ns) |->
                                 [industry_id |-> IdGet(m.industries, ns[j]),
                                  application_id |-> application_id]], ok)
    IN FlattenSeq([i \in 1..Len(fd) |-> PerRow(fd[i])])

\* str(v).strip() of a cell
StrOf(v) == IF v = NaN THEN <<"n", "a", "n">> ELSE Strip(v)

\* main's raw_materials_applications_data
RawMaterialsApplicationsFrame(f, m) ==
    LET fd == FilteredData(f)
        ok == {i \in 1..Len(fd) :
                 IdGet(m.raw_materials, fd[i]["raw_material_name"]) # 0
                 /\ IdGet(m.applications, fd[i]["application_name"]) # 0}
    IN SelectIdx([i \in 1..Len(fd) |->
                    [raw_material_id |-> IdGet(m.raw_materials, fd[i]["raw_material_name"]),
                     application_id |-> IdGet(m.applications, fd[i]["application_name"]),
                     application_percentage |-> StrOf(fd[i]["application_percentage"])]], ok)

\* main's countries_unique_data
CountriesFrame(f) == DropDuplicates(Project(f, {"country_name"}), {"country_name"})

\* main's countries_raw_materials_data
CountriesRawMaterialsFrame(f, m) ==
    LET ok == {i \in 1..Len(f) :
                 IdGet(m.countries, f[i]["country_name"]) # 0
                 /\ IdGet(m.raw_materials, f[i]["raw_material_name"]) # 0}
    IN SelectIdx([i \in 1..Len(f) |->
                    [country_id |-> IdGet(m.countries, f[i]["country_name"]),
                     raw_material_id |-> IdGet(m.raw_materials, f[i]["raw_material_name"]),
                     production_percentage |-> StrOf(f[i]["production_percentage"])]], ok)

-----------------------------------------------------------------------------
(* Inputs *)

\* a row of cargo_type_choke_points.csv (logistics_data.csv for script S)
Row1(cp, lat, cargo) ==
    [c \in File1Cols |->
        CASE c = "primary_chokepoints" -> cp
          [] c = "latitude" -> lat
          [] c = "longitude" -> <<"1">>
          [] c = "vessel_composition_cargo_type" -> cargo
          [] OTHER -> <<"5">>]

File2Cols ==
    {"route_name", "importance", "market1", "market2", "ports"} \cup SeqToSet(CpCols)

\* a row of route_choke_points_data.csv
Row2(route, cp1, cp2, ports) ==
    [c \in File2Cols |->
        CASE c = "route_name" -> route
          [] c = "chokepoint1" -> cp1
          [] c = "chokepoint2" -> cp2
          [] c = "ports" -> ports
          [] c \in {"importance", "market1", "market2"} -> <<"m">>
          [] OTHER -> Dash]

File3Cols ==
    {"port_name", "country", "latitude", "longitude",
     "import_percentage_countrys_maritime_trade",
     "export_percentage_countrys_maritime_trade"}
    \cup SeqToSet(IndustryCols) \cup SeqToSet(CargoCols) \cup SeqToSet(PctCols)

\* a row of ports_country.csv
Row3(port, country, top1, top2, cargo1) ==
    [c \in File3Cols |->
        CASE c = "port_name" -> port
          [] c = "country" -> country
          [] c = "top1_industry" -> top1
          [] c = "top2_industry" -> top2
          [] c = "annual_vessel_composition1" -> cargo1
          [] c \in SeqToSet(IndustryCols) \cup SeqToSet(CargoCols) -> Dash
          [] OTHER -> <<"5">>]

\* a row of raw_material.csv
RowA(rm, app, industry) ==
    [raw_material_name |-> rm, application1_name |-> app,
     application1_percentage |-> <<"5">>, application1_rank |-> <<"1">>,
     industry |-> industry]

\* a row of raw_material_country.csv
RowB(country, rm) ==
    [country_name |-> country, raw_material_name |-> rm,
     production_percentage |-> <<"5">>]

Rows1 ==
    {Row1(cp, lat, cargo) :
        cp \in {<<"a">>, <<"a", " ">>, NaN},
        lat \in {<<"1">>, <<"2">>, <<"x">>},
        cargo \in {<<"c">>, <<"c", " ">>}}

Rows2 ==
    {Row2(route, cp1, cp2, ports) :
        route \in {<<"r">>, <<"R">>},
        cp1 \in {<<"a">>, <<"a", " ">>, <<"z">>, NaN},
        cp2 \in {Dash, <<"a">>},
        ports \in {<<"p">>, <<"p", ",", " ", "q">>}}

Rows3 ==
    {Row3(port, country, top1, top2, cargo1) :
        port \in {<<"p">>, <<"p", " ">>, <<" ">>},
        country \in {<<"k">>, <<"u">>},
        top1 \in {<<"i">>, NaN},
        top2 \in {Dash, <<"i">>},
        cargo1 \in {<<"c">>, <<"d">>}}

RowsA ==
    {RowA(rm, app, industry) :
        rm \in {<<"g">>, <<"g", " ">>},
        app \in {<<"x">>, <<"x", " ">>, NaN},
        industry \in {<<"i">>, <<"i", "/", "j">>, NaN}}

RowsB ==
    {RowB(country, rm) : country \in {<<"k">>, <<"n">>, <<"n", " ">>}, rm \in {<<"g">>}}

\* the files of at most MaxRows rows over a set of rows
FilesOver(Rows) == UNION {[1..n -> Rows] : n \in 0..MaxRows}

Canon1 == <<Row1(<<"a">>, <<"1">>, <<"c">>)>>
Canon2 == <<Row2(<<"r">>, <<"a">>, Dash, <<"p">>)>>
Canon3 == <<Row3(<<"p">>, <<"k">>, <<"i">>, Dash, <<"c">>)>>
CanonA == <<RowA(<<"g">>, <<"x">>, <<"i">>)>>
CanonB == <<RowB(<<"n">>, <<"g">>)>>

FileSet(focus, f1, f2, f3, fa, fb) ==
    [focus |-> focus, file1 |-> f1, file2 |-> f2, file3 |-> f3, rawA |-> fa, rawB |-> fb]

\* the inputs: one file varies, the others hold one plain row
Inputs ==
    {FileSet("file1", f, Canon2, Canon3, CanonA, CanonB) : f \in FilesOver(Rows1)}
    \cup {FileSet("file2", Canon1, f, Canon3, CanonA, CanonB) : f \in FilesOver(Rows2)}
    \cup {FileSet("file3", Canon1, Canon2, f, CanonA, CanonB) : f \in FilesOver(Rows3)}
    \cup {FileSet("raw", Canon1, Canon2, Canon3, f, g) :
            f \in FilesOver(RowsA), g \in [1..1 -> RowsB]}

\* the scripts run on an input
Scripts(focus) ==
    CASE focus = "file1" -> {"L", "S"}
      [] focus = "raw" -> {"R"}
      [] OTHER -> {"L"}

\* the store before the first run: the countries table is filled by other
\* means (script L only reads it), every other table is empty
InitDb ==
    [t \in Tables |->
        IF t = "countries" THEN {[uuid |-> 1, country_name |-> <<"k">>]} ELSE {}]

NoIds == [applications |-> <<>>, raw_materials |-> <<>>, industries |-> <<>>,
          countries |-> <<>>]

Init ==
    /\ files \in Inputs
    /\ db = InitDb
    /\ snap = InitDb
    /\ aborted = FALSE
    /\ nextId = 2
    /\ script = "none"
    /\ pc = "idle"
    /\ idx = 1
    /\ run = 0
    /\ ids = NoIds
    /\ hist = [ev |-> {}, runs |-> <<>>]

-----------------------------------------------------------------------------
(* The runs *)

Stamp(ev) == {<<run, pc, idx, e>> : e \in ev}

FirstStep(sc) ==
    CASE sc = "L" -> "insert_choke_points"
      [] sc = "S" -> "s_insert_choke_points"
      [] sc = "R" -> "applications"

\* python <script>.py: main() starts
StartRun ==
    /\ pc \in {"idle", "done", "crashed"}
    /\ run < MaxRuns
    /\ \E sc \in Scripts(files.focus) :
        /\ script' = sc
        /\ pc' = FirstStep(sc)
        /\ hist' = [hist EXCEPT !.runs =
                        Append(@, [script |-> sc, before |-> db, status |-> "running"])]
    /\ run' = run + 1
    /\ idx' = 1
    /\ ids' = NoIds
    /\ UNCHANGED <<files, db, snap, aborted, nextId>>

\* what the history records when main() ends
EndRun(h, status) == [h EXCEPT !.runs[Len(h.runs)].status = status]

\* A step that runs its loop in one transaction (with connection.begin()):
\* one firing is one iteration, and the firing after the last row is the
\* commit at the end of the with block.  An exception no except clause
\* catches leaves the block, which rolls the transaction back, and ends
\* main().  COMMIT of a failed transaction is a rollback.
TxStep(step, frame, next, RowOp(_, _)) ==
    /\ pc = step
    /\ IF idx <= Len(frame)
       THEN LET st == RowOp(Session(db, nextId, aborted), frame[idx]) IN
            IF st.err # "none"
            THEN /\ db' = snap
                 /\ aborted' = FALSE
                 /\ pc' = "crashed"
                 /\ idx' = 1
                 /\ hist' = EndRun([hist EXCEPT !.ev = @ \cup Stamp(st.ev \cup {<<"crash", step, st.err>>})],
                                   "crashed")
                 /\ nextId' = st.nextId
                 /\ UNCHANGED snap
            ELSE /\ db' = st.db
                 /\ aborted' = st.aborted
                 /\ nextId' = st.nextId
                 /\ idx' = idx + 1
                 /\ hist' = [hist EXCEPT !.ev = @ \cup Stamp(st.ev)]
                 /\ UNCHANGED <<pc, snap>>
       ELSE /\ db' = (IF aborted THEN snap ELSE db)
            /\ snap' = (IF aborted THEN snap ELSE db)
            /\ aborted' = FALSE
            /\ pc' = next
            /\ idx' = 1
            /\ hist' = [hist EXCEPT !.ev = @ \cup
                            (IF aborted THEN Stamp({<<"rolled_back", step, "commit">>}) ELSE {})]
            /\ UNCHANGED nextId
    /\ UNCHANGED <<files, script, run, ids>>

\* A step whose every row is a transaction of its own
\* (process_csv_insert_route_choke_point calls insert_route_chokepoints per row)
TxPerRowStep(step, frame, next, RowOp(_, _)) ==
    /\ pc = step
    /\ IF idx <= Len(frame)
       THEN LET st == RowOp(Session(db, nextId, FALSE), frame[idx]) IN
            IF st.err # "none"
            THEN /\ pc' = "crashed"
                 /\ idx' = 1
                 /\ hist' = EndRun([hist EXCEPT !.ev = @ \cup Stamp(st.ev \cup {<<"crash", step, st.err>>})],
                                   "crashed")
                 /\ nextId' = st.nextId
                 /\ UNCHANGED <<db, snap>>
            ELSE /\ db' = (IF st.aborted THEN db ELSE st.db)
                 /\ snap' = (IF st.aborted THEN db ELSE st.db)
                 /\ nextId' = st.nextId
                 /\ idx' = idx + 1
                 /\ hist' = [hist EXCEPT !.ev = @ \cup Stamp(st.ev)]
                 /\ pc' = pc
       ELSE /\ pc' = next
            /\ idx' = 1
            /\ UNCHANGED <<db, snap, nextId, hist>>
    /\ UNCHANGED <<files, script, run, ids, aborted>>

\* A step of script R: every insert is a request committed on its own
RestStep(step, frame, next, RowOp(_, _)) ==
    /\ pc = step
    /\ IF idx <= Len(frame)
       THEN LET st == RowOp(Session(db, nextId, FALSE), frame[idx]) IN
            /\ db' = st.db
            /\ snap' = st.db
            /\ nextId' = st.nextId
            /\ IF st.err # "none"
               THEN /\ pc' = "crashed"
                    /\ idx' = 1
                    /\ hist' = EndRun([hist EXCEPT !.ev = @ \cup Stamp(st.ev \cup {<<"crash", step, st.err>>})],
                                      "crashed")
               ELSE /\ pc' = pc
                    /\ idx' = idx + 1
                    /\ hist' = [hist EXCEPT !.ev = @ \cup Stamp(st.ev)]
       ELSE /\ pc' = next
            /\ idx' = 1
            /\ UNCHANGED <<db, snap, nextId, hist>>
    /\ UNCHANGED <<files, script, run, ids, aborted>>

(* script L *)

insert_choke_points ==
    TxStep("insert_choke_points", ChokePointsFrame(files.file1), "insert_cargo_types",
           LAMBDA st, row : InsertDataRow(st, "choke_points", row, ChokePointsUnique))

insert_cargo_types ==
    TxStep("insert_cargo_types", CargoTypesFrame(files.file1),
           "insert_choke_points_cargo_types",
           LAMBDA st, row : InsertDataRow(st, "cargo_types", row, {"cargo_type_name"}))

insert_choke_points_cargo_types ==
    TxStep("insert_choke_points_cargo_types", JunctionFrame(files.file1), "insert_routes",
           JunctionRow)

\* insert_routes, were the routes looked up by route_name instead of slug
insert_routes_by_name ==
    TxStep("insert_routes", RoutesFrame(files.file2), "insert_route_chokepoints",
           LAMBDA st, row : InsertDataRow(st, "routes", row, {"route_name"}))

insert_routes ==
    TxStep("insert_routes", RoutesFrame(files.file2), "insert_route_chokepoints",
           LAMBDA st, row : InsertDataRow(st, "routes", row, {"slug"}))

insert_route_chokepoints ==
    TxPerRowStep("insert_route_chokepoints", files.file2, "insert_ports",
                 RouteChokepointsRow)

insert_ports ==
    TxStep("insert_ports", PortsFrame(files.file3), "insert_countries_port_industries",
           PortRow)

insert_countries_port_industries ==
    TxStep("insert_countries_port_industries", PortIndustriesFrame(files.file3),
           "insert_port_cargo_type", PortIndustriesRow)

insert_port_cargo_type ==
    TxStep("insert_port_cargo_type", LoadCsv(files.file3),
           "insert_ports_route_junction_table", PortCargoRow)

insert_ports_route_junction_table ==
    TxStep("insert_ports_route_junction_table", LoadCsv(files.file2), "end_main",
           RoutePortsRow)

(* script S *)

s_insert_choke_points ==
    TxStep("s_insert_choke_points", ChokePointsFrameS(files.file1), "s_insert_cargo_types",
           LAMBDA st, row : InsertDataRow(st, "choke_points", row, {"chokepoint_name"}))

s_insert_cargo_types ==
    TxStep("s_insert_cargo_types", CargoTypesFrame(files.file1), "s_insert_junction_table",
           LAMBDA st, row : InsertDataRow(st, "cargo_types", row, {"cargo_type_name"}))

s_insert_junction_table ==
    TxStep("s_insert_junction_table", JunctionFrame(files.file1), "end_main", JunctionRow)

(* script R *)

r_applications ==
    RestStep("applications", RelevantData(ApplicationsFrame(files.rawA)), "raw_materials",
             LAMBDA st, row : RawInsertRow(st, "applications", row, {"application_name"}))

r_raw_materials ==
    RestStep("raw_materials", RelevantData(RawMaterialsFrame(files.rawA)), "industries",
             LAMBDA st, row : RawInsertRow(st, "raw_materials", row, {}))

r_industries ==
    RestStep("industries", RelevantData(IndustriesFrame(files.rawA)), "retrieve_ids",
             LAMBDA st, row : RawInsertRow(st, "industries", row, {"industry_name"}))

r_retrieve_ids ==
    /\ pc = "retrieve_ids"
    /\ \E a \in RetrieveIds(db, "applications", "application_name"),
          m \in RetrieveIds(db, "raw_materials", "raw_material_name"),
          i \in RetrieveIds(db, "industries", "industry_name") :
        ids' = [ids EXCEPT !.applications = a, !.raw_materials = m, !.industries = i]
    /\ pc' = "industries_applications"
    /\ UNCHANGED <<files, db, snap, aborted, nextId, script, idx, run, hist>>

r_industries_applications ==
    RestStep("industries_applications",
             RelevantData(IndustriesApplicationsFrame(files.rawA, ids)),
             "raw_materials_applications",
             LAMBDA st, row : RawInsertRow(st, "industries_applications", row,
                                           {"industry_id", "application_id"}))

r_raw_materials_applications ==
    RestStep("raw_materials_applications",
             RelevantData(RawMaterialsApplicationsFrame(files.rawA, ids)),
             "countries",
             LAMBDA st, row : RawInsertRow(st, "raw_materials_applications", row,
                                           {"raw_material_id", "application_id"}))

r_countries ==
    RestStep("countries", RelevantData(CountriesFrame(files.rawB)), "retrieve_ids2",
             LAMBDA st, row : RawInsertRow(st, "countries", row, {}))

r_retrieve_ids2 ==
    /\ pc = "retrieve_ids2"
    /\ \E c \in RetrieveIds(db, "countries", "country_name"),
          m \in RetrieveIds(db, "raw_materials", "raw_material_name") :
        ids' = [ids EXCEPT !.countries = c, !.raw_materials = m]
    /\ pc' = "raw_materials_countries"
    /\ UNCHANGED <<files, db, snap, aborted, nextId, script, idx, run, hist>>

r_raw_materials_countries ==
    RestStep("raw_materials_countries",
             RelevantData(CountriesRawMaterialsFrame(files.rawB, ids)),
             "end_main",
             LAMBDA st, row : RawInsertRow(st, "raw_materials_countries", row, {}))

\* main() returns
end_main ==
    /\ pc = "end_main"
    /\ pc' = "done"
    /\ hist' = EndRun(hist, "done")
    /\ UNCHANGED <<files, db, snap, aborted, nextId, script, idx, run, ids>>

Next ==
    \/ StartRun
    \/ insert_choke_points
    \/ insert_cargo_types
    \/ insert_choke_points_cargo_types
    \/ insert_routes
    \/ insert_route_chokepoints
    \/ insert_ports
    \/ insert_countries_port_industries
    \/ insert_port_cargo_type
    \/ insert_ports_route_junction_table
    \/ s_insert_choke_points
    \/ s_insert_cargo_types
    \/ s_insert_junction_table
    \/ r_applications
    \/ r_raw_materials
    \/ r_industries
    \/ r_retrieve_ids
    \/ r_industries_applications
    \/ r_raw_materials_applications
    \/ r_countries
    \/ r_retrieve_ids2
    \/ r_raw_materials_countries
    \/ end_main

Spec == Init /\ [][Next]_vars

-----------------------------------------------------------------------------
(* Vocabulary of the properties *)

EntityTables ==
    {"choke_points", "cargo_types", "routes", "country_ports", "countries",
     "industries", "applications", "raw_materials"}

RelationshipTables == Tables \ EntityTables

\* the column that holds the natural key of an entity table
NameCol(t) ==
    CASE t = "choke_points" -> "chokepoint_name"
      [] t = "cargo_types" -> "cargo_type_name"
      [] t = "routes" -> "route_name"
      [] t = "country_ports" -> "port_name"
      [] t = "countries" -> "country_name"
      [] t = "industries" -> "industry_name"
      [] t = "applications" -> "application_name"
      [] t = "raw_materials" -> "raw_material_name"

\* the entity table a surrogate-key column refers to
Referenced(col) ==
    CASE col = "cargo_type_id" -> "cargo_types"
      [] col = "choke_point_id" -> "choke_points"
      [] col = "route_id" -> "routes"
      [] col = "port_id" -> "country_ports"
      [] col = "country_id" -> "countries"
      [] col = "industry_id" -> "industries"
      [] col = "application_id" -> "applications"
      [] col = "raw_material_id" -> "raw_materials"

KeyCols == {"cargo_type_id", "choke_point_id", "route_id", "port_id", "country_id",
            "industry_id", "application_id", "raw_material_id"}

\* the key tuple of a relationship row: its surrogate-key columns
KeyTuple(r) == [c \in DOMAIN r \cap KeyCols |-> r[c]]

RowsNamed(d, t, name) == {r \in d[t] : NameCol(t) \in DOMAIN r /\ r[NameCol(t)] = name}

\* the non-empty trimmed cells of a column of a CSV file
NamesIn(f, col) ==
    {Strip(f[i][col]) : i \in {j \in 1..Len(f) : f[j][col] # NaN}} \ {<<>>}

Events(kind) == {e \in hist.ev : e[4][1] = kind}

\* the events a step adds to the history
NewEvents(kind) == {e \in hist'.ev \ hist.ev : e[4][1] = kind}

\* the surrogate key of the entity row of table t named name (0: none)
Id(t, name) == FetchUuid(db, t, NameCol(t), name)

\* the relationship rows of table t that hold the key tuple key
LinksOf(t, key) == {r \in db[t] : KeyTuple(r) = key}

\* the names of a column of a data frame
FrameNames(frame, col) ==
    {frame[i][col] : i \in {j \in 1..Len(frame) : frame[j][col] # NaN}} \ {<<>>}

OneRowEach(t, names) == \A K \in names : Cardinality(RowsNamed(db, t, K)) = 1

FirstRunDone == pc = "done" /\ run = 1

-----------------------------------------------------------------------------
(* C1 *)

\* C1: when a script has been run to its end twice in succession on the same
\* input, every table has as many rows after the second run as it had before
\* it (after the first run): the second run inserts nothing.
SecondRunInsertsNothing ==
    (/\ pc = "done"
     /\ run >= 2
     /\ hist.runs[run].script = hist.runs[run - 1].script
     /\ hist.runs[run - 1].status = "done")
    => \A t \in Tables : Cardinality(db[t]) = Cardinality(hist.runs[run].before[t])

-----------------------------------------------------------------------------
(* C2 *)

\* C2: after a complete run, for every natural key K the loader reads from the
\* source (non-empty, trimmed), the entity table holds exactly one row named K,
\* also when K occurs in several rows, with surrounding whitespace or with
\* differing attributes.
OneEntityRowPerKey ==
    FirstRunDone =>
        /\ script = "L" =>
            /\ OneRowEach("choke_points",
                          FrameNames(ChokePointsFrame(files.file1), "chokepoint_name"))
            /\ OneRowEach("cargo_types",
                          NamesIn(files.file1, "vessel_composition_cargo_type"))
        /\ script = "S" =>
            /\ OneRowEach("choke_points", NamesIn(files.file1, "primary_chokepoints"))
            /\ OneRowEach("cargo_types",
                          NamesIn(files.file1, "vessel_composition_cargo_type"))
        /\ script = "R" =>
            /\ OneRowEach("applications", NamesIn(files.rawA, "application1_name"))
            /\ OneRowEach("raw_materials", NamesIn(files.rawA, "raw_material_name"))

-----------------------------------------------------------------------------
(* C3 *)

\* C3: after a complete run, for every relationship key tuple of the source
\* whose entities (named after trimming) are all in the store, the
\* relationship table holds exactly one row with that key tuple.
OneRelationshipRowPerKeyTuple ==
    FirstRunDone =>
        /\ script \in {"L", "S"} =>
            \A i \in 1..Len(files.file1) :
                LET cp == Id("choke_points",
                             StripIfStr(files.file1[i]["primary_chokepoints"]))
                    ct == Id("cargo_types",
                             StripIfStr(files.file1[i]["vessel_composition_cargo_type"]))
                IN (cp # 0 /\ ct # 0) =>
                    Cardinality(LinksOf("choke_points_cargo_types",
                                        [choke_point_id |-> cp, cargo_type_id |-> ct])) = 1
        /\ script = "R" =>
            \A i \in 1..Len(files.rawA) :
                LET rm == Id("raw_materials",
                             StripIfStr(files.rawA[i]["raw_material_name"]))
                    ap == Id("applications",
                             StripIfStr(files.rawA[i]["application1_name"]))
                IN (rm # 0 /\ ap # 0) =>
                    Cardinality(LinksOf("raw_materials_applications",
                                        [raw_material_id |-> rm, application_id |-> ap])) = 1

-----------------------------------------------------------------------------
(* C4 *)

\* C4: whenever the loader has resolved a natural key to a surrogate key that
\* it goes on to use in a relationship row (finding the entity row or
\* inserting it), the entity table holds a row of that name with that
\* surrogate key.
ResolvedKeyIsStoredKey ==
    [][pc' # "crashed" =>
         \A e \in NewEvents("resolved") :
             \E r \in db'[e[4][2]] :
                 r[NameCol(e[4][2])] = e[4][3].name /\ r.uuid = e[4][3].id]_vars

-----------------------------------------------------------------------------
(* C5 *)

\* C5: no step adds to a relationship table a row whose key tuple a row of the
\* table already holds, nor two rows of one key tuple: an existing key tuple
\* is looked up and skipped, in every relationship table.
LinkSkipsExistingKeyTuple ==
    [][\A t \in RelationshipTables :
          /\ \A r \in db'[t] \ db[t] : \A q \in db[t] : KeyTuple(q) # KeyTuple(r)
          /\ \A r, q \in db'[t] \ db[t] : KeyTuple(q) = KeyTuple(r) => q = r]_vars

-----------------------------------------------------------------------------
(* C6 *)

\* C6: a uniqueness violation raised by the store on an insert is a skipped
\* row: the step it happened in neither ends the run with an error nor loses
\* its rows by a rollback.
UniquenessViolationIsSkipped ==
    \A e \in Events("IntegrityError") :
        \A x \in hist.ev :
            (x[1] = e[1] /\ x[2] = e[2]) => x[4][1] \notin {"crash", "rolled_back"}

-----------------------------------------------------------------------------
(* C7 *)

\* C7: in every state, every surrogate key stored in a relationship row is the
\* surrogate key of a row of the entity table it refers to.
ForeignKeysReferToEntityRows ==
    \A t \in RelationshipTables :
        \A r \in db[t] : \A c \in DOMAIN r \cap KeyCols :
            \E q \in db[Referenced(c)] : q.uuid = r[c]

-----------------------------------------------------------------------------
(* C8 *)

EntitySteps ==
    {"insert_choke_points", "insert_cargo_types", "insert_routes", "insert_ports",
     "s_insert_choke_points", "s_insert_cargo_types",
     "applications", "raw_materials", "industries", "countries"}

\* C8: a source row whose natural key is missing raises no error: no entity
\* step ends the run with the KeyError or AttributeError of a missing cell.
MissingKeyRaisesNoError ==
    \A e \in Events("crash") :
        ~(e[2] \in EntitySteps /\ e[4][3] \in {"KeyError", "AttributeError"})

-----------------------------------------------------------------------------
(* C9 *)

\* the steps of scripts L and S that load a relationship table row by row
RelationshipSteps ==
    {"insert_choke_points_cargo_types", "s_insert_junction_table",
     "insert_route_chokepoints", "insert_countries_port_industries",
     "insert_port_cargo_type", "insert_ports_route_junction_table"}

JunctionSteps == {"insert_choke_points_cargo_types", "s_insert_junction_table"}

StepTable(s) ==
    CASE s \in JunctionSteps -> "choke_points_cargo_types"
      [] s = "insert_route_chokepoints" -> "routes_choke_points"
      [] s = "insert_countries_port_industries" -> "countries_port_industries"
      [] s = "insert_port_cargo_type" -> "port_cargo_type"
      [] s = "insert_ports_route_junction_table" -> "routes_ports"

StepFrame(s) ==
    CASE s \in JunctionSteps -> JunctionFrame(files.file1)
      [] s = "insert_route_chokepoints" -> files.file2
      [] s = "insert_countries_port_industries" -> PortIndustriesFrame(files.file3)
      [] s = "insert_port_cargo_type" -> LoadCsv(files.file3)
      [] s = "insert_ports_route_junction_table" -> LoadCsv(files.file2)

\* the cells of a source row that name the entities its relationships refer to
RefCells(s) ==
    CASE s \in JunctionSteps -> {"primary_chokepoints", "vessel_composition_cargo_type"}
      [] s = "insert_route_chokepoints" -> {"route_name"} \cup SeqToSet(CpCols)
      [] s = "insert_countries_port_industries" -> {"port_name"} \cup SeqToSet(IndustryCols)
      [] s = "insert_port_cargo_type" -> {"port_name"} \cup SeqToSet(CargoCols)
      [] s = "insert_ports_route_junction_table" -> {"route_name", "ports"}

\* a cell that names something
Named(v) == v # <<>> /\ v # Dash /\ ~IsSpace(v)

\* The references of a source row: for each relationship the row asks for,
\* the surrogate keys of the entities it names that are looked up in the
\* store (0: no such entity).  An industry or cargo type of a port is created
\* when it is missing, so only the port is a reference there.
Refs(s, row) ==
    CASE s \in JunctionSteps ->
             {[choke_point_id |-> Id("choke_points", Strip(row["primary_chokepoints"])),
               cargo_type_id |->
                   Id("cargo_types", Strip(row["vessel_composition_cargo_type"]))]}
      [] s = "insert_route_chokepoints" ->
             {[route_id |-> Id("routes", row["route_name"]),
               choke_point_id |-> Id("choke_points", row[CpCols[i]])]
                 : i \in {j \in 1..Len(CpCols) : Named(row[CpCols[j]])}}
      [] s = "insert_countries_port_industries" ->
             {[port_id |-> Id("country_ports", Strip(row["port_name"]))]
                 : i \in {j \in 1..Len(IndustryCols) : Named(Strip(row[IndustryCols[j]]))}}
      [] s = "insert_port_cargo_type" ->
             {[port_id |-> Id("country_ports", Strip(row["port_name"]))]
                 : i \in {j \in 1..Len(CargoCols) : Named(Strip(row[CargoCols[j]]))}}
      [] s = "insert_ports_route_junction_table" ->
             LET ps == Split(row["ports"], ",") IN
             {[route_id |-> Id("routes", row["route_name"]),
               port_id |-> Id("country_ports", Strip(ps[i]))] : i \in 1..Len(ps)}

Resolvable(k) == \A c \in DOMAIN k : k[c] # 0

Matches(r, k) == \A c \in DOMAIN k : r[c] = k[c]

\* the step is about to load a source row all of whose reference cells are
\* filled in
LoadsRow(s) ==
    /\ pc = s
    /\ idx <= Len(StepFrame(s))
    /\ \A c \in RefCells(s) : StepFrame(s)[idx][c] # NaN

\* a row with a reference that does not resolve: the step goes on to the next
\* row, and the rows it adds are those of the row's other references
SkipsUnresolved(s, row) ==
    LET t == StepTable(s)
        new == db'[t] \ db[t]
    IN (\E k \in Refs(s, row) : ~Resolvable(k)) =>
          /\ pc' = s
          /\ idx' = idx + 1
          /\ \A k \in Refs(s, row) : Resolvable(k) => \E r \in new : Matches(r, k)
          /\ \A r \in new : \E k \in Refs(s, row) : Resolvable(k) /\ Matches(r, k)

\* the pairs of names script R's relationship step s reads from its source
\* rows, as the dictionaries of retrieve_ids resolve them
RawRefs(s) ==
    LET fd == FilteredData(files.rawA) IN
    CASE s = "industries_applications" ->
             UNION {{[industry_id |-> IdGet(ids.industries, n),
                      application_id |-> IdGet(ids.applications, fd[i]["application_name"])]
                        : n \in SeqToSet(IndustryNames(fd[i]["industry_name"]))}
                    : i \in {j \in 1..Len(fd) : fd[j]["industry_name"] # NaN}}
      [] s = "raw_materials_applications" ->
             {[raw_material_id |-> IdGet(ids.raw_materials, fd[i]["raw_material_name"]),
               application_id |-> IdGet(ids.applications, fd[i]["application_name"])]
                 : i \in 1..Len(fd)}
      [] s = "raw_materials_countries" ->
             {[country_id |-> IdGet(ids.countries, files.rawB[i]["country_name"]),
               raw_material_id |-> IdGet(ids.raw_materials, files.rawB[i]["raw_material_name"])]
                 : i \in 1..Len(files.rawB)}

RawRelationshipSteps ==
    {"industries_applications", "raw_materials_applications", "raw_materials_countries"}

\* when script R has ended a relationship step some of whose references did
\* not resolve: the table holds a row for every reference that did, and the
\* run has added no other row to it
RawSkipsUnresolved(s) ==
    (pc = s /\ pc' # s /\ \E k \in RawRefs(s) : ~Resolvable(k)) =>
        /\ pc' # "crashed"
        /\ \A k \in RawRefs(s) : Resolvable(k) => \E r \in db'[s] : Matches(r, k)
        /\ \A r \in db'[s] \ hist.runs[run].before[s] :
               \E k \in RawRefs(s) : Resolvable(k) /\ Matches(r, k)

\* C9: a relationship whose entity does not resolve is skipped and loading
\* goes on: no row is inserted for it, the step does not end in an error, and
\* every resolvable relationship of the same source row (script R: of the same
\* step) is inserted.
UnresolvedReferenceIsSkipped ==
    [][/\ \A s \in RelationshipSteps :
             LoadsRow(s) => SkipsUnresolved(s, StepFrame(s)[idx])
       /\ \A s \in RawRelationshipSteps : RawSkipsUnresolved(s)]_vars

\* a source row of which one relationship was skipped as unresolved and
\* another one inserted
UnresolvedSkippedOtherLinked ==
    \E u \in Events("unresolved"), l \in Events("linked") :
        u[1] = l[1] /\ u[2] = l[2] /\ u[3] = l[3]

-----------------------------------------------------------------------------
(* C10 *)

\* the names a row of the junction source asks to relate
JunctionKey(row) ==
    <<StripIfStr(row["primary_chokepoints"]), StripIfStr(row["vessel_composition_cargo_type"])>>

\* an earlier run skipped the relationship key as unresolved
SkippedBefore(key) ==
    \E u \in Events("unresolved") :
        u[1] < run /\ u[4][2] = "choke_points_cargo_types" /\ u[4][3] = key

\* C10: loading a chokepoint / cargo type relationship while one of the two
\* entities is absent from the store skips it (nothing is inserted, the step
\* goes on); when a later run loads the same row after the entity has been
\* added, the relationship row is inserted.
SkippedThenInsertedOnRerun ==
    [][\A s \in JunctionSteps :
          LoadsRow(s) =>
             LET row == StepFrame(s)[idx]
                 t == StepTable(s)
             IN \A k \in Refs(s, row) :
                   /\ ~Resolvable(k) =>
                         /\ db'[t] = db[t]
                         /\ pc' = s
                         /\ idx' = idx + 1
                   /\ (Resolvable(k) /\ SkippedBefore(JunctionKey(row))) =>
                         /\ \E r \in db'[t] \ db[t] : Matches(r, k)
                         /\ pc' = s]_vars

\* a relationship that the first run skipped as unresolved and the second run
\* inserted
SkippedInRunOneLinkedInRunTwo ==
    \E u \in Events("unresolved"), l \in Events("linked") :
        /\ u[1] = 1
        /\ l[1] = 2
        /\ u[4][2] = "choke_points_cargo_types"
        /\ l[4][2] = "choke_points_cargo_types"
        /\ u[4][3] = l[4][3]

-----------------------------------------------------------------------------
(* C11 *)

\* the entities a row of a relationship step names, as surrogate keys (0: the
\* entity is not in the store); industries and cargo types of a port included
NamedEntities(s, row) ==
    CASE s \in JunctionSteps ->
             {Id("choke_points", Strip(row["primary_chokepoints"])),
              Id("cargo_types", Strip(row["vessel_composition_cargo_type"]))}
      [] s = "insert_countries_port_industries" ->
             {Id("industries", Strip(row[IndustryCols[i]]))
                 : i \in {j \in 1..Len(IndustryCols) : Named(Strip(row[IndustryCols[j]]))}}
      [] s = "insert_port_cargo_type" ->
             {Id("cargo_types", Strip(row[CargoCols[i]]))
                 : i \in {j \in 1..Len(CargoCols) : Named(Strip(row[CargoCols[j]]))}}
      [] OTHER -> {}

\* the row has the coordinates that make it a chokepoint row script L loads
ValidRow(s, row) ==
    s = "insert_choke_points_cargo_types" =>
        ToNumeric(row["latitude"]) # NaN /\ ToNumeric(row["longitude"]) # NaN

\* C11: a relationship step starts after the entity loads it refers to (main
\* fixes that order), so that every entity a valid source row names is in the
\* store when a relationship step processes the row.
EntitiesLoadedBeforeRelationships ==
    \A s \in RelationshipSteps :
        (LoadsRow(s) /\ ValidRow(s, LoadCsv(files.file1)[idx])) =>
            0 \notin NamedEntities(s, StepFrame(s)[idx])

-----------------------------------------------------------------------------
(* C12 *)

\* the steps of a run that load a table
LoadSteps == EntitySteps \cup RelationshipSteps \cup RawRelationshipSteps

\* C12: a load step commits only at its end: while the step is in progress the
\* committed store does not change, and when the step fails part-way the
\* store is left as it was committed before the step.
StepCommitsOnlyAtEnd ==
    [][(pc \in LoadSteps /\ pc' \in {pc, "crashed"}) =>
          /\ snap' = snap
          /\ pc' = "crashed" => db' = snap]_vars

-----------------------------------------------------------------------------
(* C13 *)

\* the exceptions by which the store refuses a statement
StoreErrors == {"InternalError", "IntegrityError"}

\* C13: a store error raised in a transactional load step, on a lookup or on
\* an insert, rolls the step back and the run goes on with the next step: no
\* run is ended by a store error.
StoreErrorDoesNotEndRun ==
    \A e \in Events("crash") : e[4][3] \notin StoreErrors

-----------------------------------------------------------------------------
(* Script U: commodities_update.py, the symbol update.                        *)
(* Its runs are behaviours of SymbolSpec, which uses the variables this way:  *)
(*   files  the inputs: sys.argv[1:], and the API's response to the request   *)
(*   db     the tables as the session sees them (pending changes included)    *)
(*   snap   the tables as committed                                           *)
(*   ids    the module-level names: api_source, raw_materials, symbols        *)
(*   idx    the index of the next element of raw_materials                    *)
(*   hist   what the process did: messages printed, requests sent, exit status*)
(*   pc     the line the script is at                                         *)

Letters ==
    <<<<"A", "a">>, <<"B", "b">>, <<"C", "c">>, <<"D", "d">>, <<"E", "e">>, <<"F", "f">>,
      <<"G", "g">>, <<"H", "h">>, <<"I", "i">>, <<"J", "j">>, <<"K", "k">>, <<"L", "l">>,
      <<"M", "m">>, <<"N", "n">>, <<"O", "o">>, <<"P", "p">>, <<"Q", "q">>, <<"R", "r">>,
      <<"S", "s">>, <<"T", "t">>, <<"U", "u">>, <<"V", "v">>, <<"W", "w">>, <<"X", "x">>,
      <<"Y", "y">>, <<"Z", "z">>>>

\* str.lower()
Lower(s) ==
    [i \in 1..Len(s) |->
        IF \E k \in 1..Len(Letters) : Letters[k][1] = s[i]
        THEN Letters[CHOOSE k \in 1..Len(Letters) : Letters[k][1] = s[i]][2]
        ELSE s[i]]

CommoditiesApi == <<"C", "o", "m", "m", "o", "d", "i", "t", "i", "e", "s", " ", "A", "P", "I">>

CommoditiesApiLower == <<"c", "o", "m", "m", "o", "d", "i", "t", "i", "e", "s", " ", "a", "p", "i">>

MetalApiLower == <<"m", "e", "t", "a", "l", " ", "a", "p", "i">>

MetalApi == <<"M", "e", "t", "a", "l", " ", "A", "P", "I">>

MetalsApi == <<"M", "e", "t", "a", "l", "s", " ", "A", "P", "I">>

Gold == <<"G", "o", "l", "d">>

GoldLower == <<"g", "o", "l", "d">>

Tin == <<"T", "i", "n">>

\* rows of api_sources (uuid, name, url)
ApiSourceRows ==
    {[uuid |-> 1, name |-> CommoditiesApi, url |-> "https://c"],
     [uuid |-> 2, name |-> MetalApi, url |-> "https://m"],
     [uuid |-> 3, name |-> MetalsApi, url |-> "https://ms"]}

\* rows of raw_materials (uuid, raw_material_name, api_source, symbol); 0 is
\* the NULL of api_source, None the NULL of a string column
RawMaterialRows(u) ==
    CASE u = 11 -> {[uuid |-> 11, raw_material_name |-> Gold, api_source |-> 0, symbol |-> <<>>],
                    [uuid |-> 11, raw_material_name |-> GoldLower, api_source |-> 3, symbol |-> None]}
      [] u = 12 -> {[uuid |-> 12, raw_material_name |-> Tin, api_source |-> 0, symbol |-> None],
                    [uuid |-> 12, raw_material_name |-> Tin, api_source |-> 0, symbol |-> <<"T", "N">>]}
      [] u = 13 -> {[uuid |-> 13, raw_material_name |-> None, api_source |-> 0, symbol |-> None]}

RawMaterialOptions(u) == {{}} \cup {{r} : r \in RawMaterialRows(u)}

RawMaterialTables ==
    {a \cup b \cup c : a \in RawMaterialOptions(11), b \in RawMaterialOptions(12),
                       c \in RawMaterialOptions(13)}

\* a value of the JSON object the API answers with: a string, or an object
\* with the fields named
JStr(s) == [kind |-> "str", s |-> s, fields |-> {}]
JObj(fields, name) == [kind |-> "dict", s |-> name, fields |-> fields]

\* the bodies of the answer: the (symbol, value) pairs in the object's order
SymbolBodies ==
    {<<>>,
     <<<<<<"X", "A", "U">>, JStr(Gold)>>, <<<<"S", "N">>, JStr(Lower(Tin))>>>>,
     <<<<<<"X", "A", "U">>, JStr(Gold)>>, <<<<"G", "L", "D">>, JStr(GoldLower)>>>>,
     <<<<<<>>, JStr(Gold)>>, <<<<"S", "N">>, JStr(Tin)>>>>,
     <<<<<<"X", "A", "U">>, JObj({"id", "name"}, GoldLower)>>,
       <<<<"S", "N">>, JObj({"id"}, <<>>)>>>>,
     <<<<<<"X", "A", "U">>, JStr(Gold)>>, <<<<"S", "N">>, JObj({"id", "name"}, Tin)>>>>}

ArgvSet ==
    {<<>>, <<CommoditiesApi>>, <<MetalApi>>, <<MetalsApi>>, <<MetalApiLower>>,
     <<CommoditiesApi, MetalApi>>}

SymbolInputs ==
    [argv : ArgvSet, status : {200, 500}, body : SymbolBodies]

NoSource == [uuid |-> 0, name |-> <<>>, url |-> ""]

NoNames == [api_source_name |-> <<>>, api_source |-> NoSource, api_key |-> "",
            raw_materials |-> <<>>, symbols |-> <<>>]

SymbolInit ==
    /\ files \in SymbolInputs
    /\ \E s \in SUBSET ApiSourceRows, m \in RawMaterialTables :
          /\ db = [api_sources |-> s, raw_materials |-> m]
          /\ snap = [api_sources |-> s, raw_materials |-> m]
    /\ aborted = FALSE
    /\ nextId = 0
    /\ script = "U"
    /\ pc = "check_argv"
    /\ idx = 1
    /\ run = 1
    /\ ids = NoNames
    /\ hist = [out |-> <<>>, requests |-> 0, exit |-> -1]

\* print(...) and sys.exit(status); the session's pending changes are lost
ExitFrom(h, status, message) ==
    /\ pc' = "exited"
    /\ hist' = [h EXCEPT !.out = Append(@, message), !.exit = status]
    /\ db' = snap

Exit(status, message) == ExitFrom(hist, status, message)

\* lines 68-73: the command-line argument validation
check_argv ==
    /\ pc = "check_argv"
    /\ IF Len(files.argv) + 1 # 2
       THEN Exit(1, "usage") /\ UNCHANGED ids
       ELSE /\ ids' = [ids EXCEPT !.api_source_name = files.argv[1]]
            /\ pc' = "query_api_source"
            /\ UNCHANGED <<db, hist>>
    /\ UNCHANGED <<files, snap, aborted, nextId, script, idx, run>>

\* lines 76-81: session.query(ApiSource).filter_by(name=...).first()
query_api_source ==
    /\ pc = "query_api_source"
    /\ LET found == {r \in db.api_sources : r.name = ids.api_source_name} IN
       IF found = {}
       THEN Exit(1, "not found in the database") /\ UNCHANGED ids
       ELSE /\ \E r \in found : ids' = [ids EXCEPT !.api_source = r]
            /\ pc' = "api_key"
            /\ UNCHANGED <<db, hist>>
    /\ UNCHANGED <<files, snap, aborted, nextId, script, idx, run>>

\* api_key without its else branch: every name that is not the commodities
\* API is taken for the metal API
api_key_no_else ==
    /\ pc = "api_key"
    /\ ids' = [ids EXCEPT !.api_key = IF Lower(ids.api_source_name) = CommoditiesApiLower
                                       THEN "COMMODITIES_API_KEY" ELSE "METAL_API_KEY"]
    /\ pc' = "query_raw_materials"
    /\ hist' = [hist EXCEPT !.out = Append(@, "Using API source")]
    /\ UNCHANGED <<db, files, snap, aborted, nextId, script, idx, run>>

\* lines 84-95: the API key of the source, and the URL
api_key ==
    /\ pc = "api_key"
    /\ IF Lower(ids.api_source_name) = CommoditiesApiLower
       THEN /\ ids' = [ids EXCEPT !.api_key = "COMMODITIES_API_KEY"]
            /\ pc' = "query_raw_materials"
            /\ hist' = [hist EXCEPT !.out = Append(@, "Using API source")]
            /\ UNCHANGED db
       ELSE IF Lower(ids.api_source_name) = MetalApiLower
       THEN /\ ids' = [ids EXCEPT !.api_key = "METAL_API_KEY"]
            /\ pc' = "query_raw_materials"
            /\ hist' = [hist EXCEPT !.out = Append(@, "Using API source")]
            /\ UNCHANGED db
       ELSE Exit(1, "Unknown API source") /\ UNCHANGED ids
    /\ UNCHANGED <<files, snap, aborted, nextId, script, idx, run>>

\* the lists a query can return: the rows of S in some order
Orders(S) ==
    {q \in [1..Cardinality(S) -> S] : \A i, j \in 1..Cardinality(S) : q[i] = q[j] => i = j}

\* the query without its filter: every raw material
query_every_raw_material ==
    /\ pc = "query_raw_materials"
    /\ \E q \in Orders(db.raw_materials) :
          ids' = [ids EXCEPT !.raw_materials = [i \in 1..Len(q) |-> q[i].uuid]]
    /\ pc' = "fetch_symbols"
    /\ UNCHANGED <<files, db, snap, aborted, nextId, script, idx, run, hist>>

\* lines 118-120: the raw materials whose symbol is '' or NULL
query_raw_materials ==
    /\ pc = "query_raw_materials"
    /\ \E q \in Orders({r \in db.raw_materials : r.symbol = <<>> \/ r.symbol = None}) :
          ids' = [ids EXCEPT !.raw_materials = [i \in 1..Len(q) |-> q[i].uuid]]
    /\ pc' = "fetch_symbols"
    /\ UNCHANGED <<files, db, snap, aborted, nextId, script, idx, run, hist>>

\* sub in s, for strings
Contains(sub, s) ==
    \E i \in 0..(Len(s) - Len(sub)) : SubSeq(s, i + 1, i + Len(sub)) = sub

NameKey == <<"n", "a", "m", "e">>

\* 'name' in value
HasName(v) == IF v.kind = "dict" THEN "name" \in v.fields ELSE Contains(NameKey, v.s)

\* lines 142-148: the symbols dictionary, as its items in order
Symbols(body) ==
    IF \E i \in 1..Len(body) : body[i][2].kind = "dict" /\ HasName(body[i][2])
    THEN LET kept == SelectIdx(body, {i \in 1..Len(body) : HasName(body[i][2])})
         IN [i \in 1..Len(kept) |-> <<kept[i][1], JStr(kept[i][2].s)>>]
    ELSE body

\* value['name'] of a string raises TypeError
SymbolsRaises(body) ==
    /\ \E i \in 1..Len(body) : body[i][2].kind = "dict" /\ HasName(body[i][2])
    /\ \E i \in 1..Len(body) : body[i][2].kind = "str" /\ HasName(body[i][2])

\* lines 139-150 (fetch_symbols: 111-115): the request and the dictionary
fetch_symbols ==
    /\ pc = "fetch_symbols"
    /\ IF files.status # 200
       THEN /\ ExitFrom([hist EXCEPT !.requests = @ + 1], 1,
                         "Exception: Failed to fetch symbols from API")
            /\ UNCHANGED <<ids, idx>>
       ELSE IF SymbolsRaises(files.body)
       THEN /\ ExitFrom([hist EXCEPT !.requests = @ + 1], 1, "TypeError")
            /\ UNCHANGED <<ids, idx>>
       ELSE /\ ids' = [ids EXCEPT !.symbols = Symbols(files.body)]
            /\ hist' = [hist EXCEPT !.requests = @ + 1,
                                    !.out = Append(@, "Raw materials updated successfully.")]
            /\ pc' = "update"
            /\ idx' = 1
            /\ UNCHANGED db
    /\ UNCHANGED <<files, snap, aborted, nextId, script, run>>

\* lines 153-160: the first symbol whose name is the raw material's name,
\* compared in lower case; <<>> stands for no match (None)
RECURSIVE MatchingSymbol(_, _)
MatchingSymbol(symbols, name) ==
    IF symbols = <<>> THEN <<>>
    ELSE IF Head(symbols)[2].kind = "str" /\ Lower(name) = Lower(Head(symbols)[2].s)
    THEN Head(symbols)[1]
    ELSE MatchingSymbol(Tail(symbols), name)

\* the stored row of a queried raw material
MaterialRow(u) == CHOOSE r \in db.raw_materials : r.uuid = u

\* lines 162-167: the row after its update
WithSymbol(r, matching_symbol) ==
    [r EXCEPT !.api_source = IF @ = 0 THEN ids.api_source.uuid ELSE @,
              !.symbol = matching_symbol]

\* lines 152-171: one iteration of the loop over raw_materials, and the commit
\* after the last one
update_raw_materials_with_symbols ==
    /\ pc = "update"
    /\ IF idx <= Len(ids.raw_materials)
       THEN LET r == MaterialRow(ids.raw_materials[idx])
                matching_symbol == MatchingSymbol(ids.symbols, r.raw_material_name)
            IN
            IF r.raw_material_name = None
               /\ \E i \in 1..Len(ids.symbols) : ids.symbols[i][2].kind = "str"
            THEN Exit(1, "AttributeError") /\ UNCHANGED <<idx, snap>>
            ELSE /\ db' = IF matching_symbol # <<>>
                          THEN [db EXCEPT !.raw_materials =
                                    (@ \ {r}) \cup {WithSymbol(r, matching_symbol)}]
                          ELSE db
                 /\ hist' = IF matching_symbol # <<>>
                            THEN [hist EXCEPT !.out = Append(@, "Updated raw material")]
                            ELSE hist
                 /\ idx' = idx + 1
                 /\ UNCHANGED <<pc, snap>>
       ELSE /\ snap' = db
            /\ pc' = "done"
            /\ hist' = [hist EXCEPT !.out = Append(@, "Raw materials updated successfully."),
                                    !.exit = 0]
            /\ UNCHANGED <<db, idx>>
    /\ UNCHANGED <<files, aborted, nextId, script, run, ids>>

SymbolNext ==
    \/ check_argv
    \/ query_api_source
    \/ api_key
    \/ query_raw_materials
    \/ fetch_symbols
    \/ update_raw_materials_with_symbols

SymbolSpec == SymbolInit /\ [][SymbolNext]_vars


(* C14 *)
\* the command line the validation of lines 67-90 rejects
InvalidArguments ==
    \/ Len(files.argv) # 1
    \/ /\ Len(files.argv) = 1
       /\ \/ files.argv[1] \notin {r.name : r \in snap.api_sources}
          \/ Lower(files.argv[1]) \notin {CommoditiesApiLower, MetalApiLower}

\* C14: with an argument count other than one, a source name that is not in
\* the store, or a name that is not a known source, the symbol update never
\* requests the API, changes no row of the store, and ends only by exiting
\* with a non-zero status after printing a message.
InvalidArgumentsExitBeforeFetch ==
    [][InvalidArguments =>
        /\ snap' = snap
        /\ db' = db
        /\ hist'.requests = 0
        /\ pc' \in {"query_api_source", "api_key", "exited"}
        /\ pc' = "exited" => hist'.exit # 0 /\ hist'.out # <<>>]_vars

\* a run given the name of a stored source that is not a known one has exited
UnknownSourceExited ==
    /\ Len(files.argv) = 1
    /\ files.argv[1] \in {r.name : r \in snap.api_sources}
    /\ Lower(files.argv[1]) \notin {CommoditiesApiLower, MetalApiLower}
    /\ pc = "exited"
    /\ hist.exit = 1
    /\ hist.requests = 0


(* C15 *)
\* the tables whose events carry the strings of their lookups as the key
RouteLinkTables == {"routes_choke_points", "routes_ports"}

\* an all-empty row of the re-read routes file is at the route-chokepoint step
EmptyRowAtLoadStep ==
    /\ pc = "insert_route_chokepoints"
    /\ idx <= Len(files.file2)
    /\ \A c \in DOMAIN files.file2[idx] : files.file2[idx][c] = NaN

\* C15: every string used as a natural key of a lookup in the route
\* relationship loads is trimmed of surrounding whitespace, and no source row
\* with all fields empty reaches a load step.
KeysTrimmedEmptyRowsFiltered ==
    /\ \A e \in hist.ev :
          e[4][2] \in RouteLinkTables =>
              \A i \in DOMAIN e[4][3] : e[4][3][i] = Strip(e[4][3][i])
    /\ ~EmptyRowAtLoadStep


(* C16 *)
\* the surrogate keys the committed rows of table t with natural key name have
SurrogateKeys(d, t, name) == {r.uuid : r \in RowsNamed(d, t, name)}

\* C16: a committed entity row with natural key K and surrogate key S stays
\* in its table, and no step commits a row for K with another surrogate key.
SurrogateKeyIsStable ==
    [][\A t \in EntityTables : \A r \in snap[t] :
          /\ r \in snap'[t]
          /\ SurrogateKeys(snap', t, r[NameCol(t)]) = SurrogateKeys(snap, t, r[NameCol(t)])]_vars


(* C17 *)
\* C17: no step of the importers changes or deletes a committed row: every
\* row of every table is still in its table, with the same attributes, after
\* the step, whatever values the source rows carry.
LoadsKeepExistingRows ==
    [][\A t \in Tables : snap[t] \subseteq snap'[t]]_vars

\* a source row named like a stored chokepoint but carrying coordinates the
\* stored row does not have has been loaded, and the stored row is as it was
ExistingRowKeptWithOtherValues ==
    \E e \in hist.ev :
        /\ e[4][2] = "choke_points"
        /\ e[4][1] \in {"duplicate", "IntegrityError"}
        /\ "chokepoint_name" \in DOMAIN e[4][3]
        /\ \E r \in snap.choke_points :
              /\ r.chokepoint_name = e[4][3].chokepoint_name
              /\ \E c \in {"latitude", "longitude"} \cap DOMAIN e[4][3] :
                    c \notin DOMAIN r \/ r[c] # e[4][3][c]


(* C18 *)
\* C18: the driver loads the entities of a source file and then its
\* relationships; entity rows are inserted only by the entity steps, and no
\* relationship-loading step adds a row to an entity table.
RelationshipStepsInsertNoEntity ==
    [][(pc \in RelationshipSteps \cup RawRelationshipSteps) =>
          \A t \in EntityTables : db'[t] \subseteq db[t]]_vars


(* C19 *)
\* the source file a load step takes its rows from, counted in the order in
\* which main opens the files
SourceFile(s) ==
    CASE s \in {"insert_choke_points", "insert_cargo_types", "insert_choke_points_cargo_types",
                "s_insert_choke_points", "s_insert_cargo_types", "s_insert_junction_table"} -> 1
      [] s \in {"insert_routes", "insert_route_chokepoints",
                "insert_ports_route_junction_table"} -> 2
      [] s \in {"insert_ports", "insert_countries_port_industries",
                "insert_port_cargo_type"} -> 3
      [] s \in {"applications", "raw_materials", "industries", "industries_applications",
                "raw_materials_applications"} -> 1
      [] s \in {"countries", "raw_materials_countries"} -> 2

\* C19: source files are processed one after another: a load step is never
\* followed by a load step that reads the rows of an earlier source file.
FilesProcessedInOrder ==
    [][(pc \in LoadSteps /\ pc' \in LoadSteps) => SourceFile(pc') >= SourceFile(pc)]_vars


(* C20 *)
\* C20: a store error met while an entity row is looked up or inserted is
\* surfaced: the step ends with an error at that row instead of going on to
\* the next row.
StoreFailureIsSurfaced ==
    \A e \in hist.ev :
        (e[4][1] \in StoreErrors /\ e[4][2] \in EntityTables) =>
            \E c \in Events("crash") : c[1] = e[1] /\ c[2] = e[2] /\ c[3] = e[3]


-----------------------------------------------------------------------------
(* Script P: commodity_price_fetch.py, the price fetcher (the file of the     *)
(* same name under raw_materials/ has the same main for the Metals API).      *)
(* Its runs are behaviours of PriceSpec, which uses the variables this way:   *)
(*   files  the inputs: what the API has and answers, the store's constraint  *)
(*   db     the tables (every insert is a request committed on its own)       *)
(*   ids    main's locals: raw_materials, current_start_date                  *)
(*   idx    the index of the material the for loop is at                      *)
(*   hist   the requests sent to the API, in order, and how each one ended    *)
(* Dates are day numbers: start_date is day 0.                                *)

\* line 149 and 148: start_date is 730 days before today, end_date 1 day
RangeDays == 729

\* line 165: timedelta(days=30)
ChunkDays == 30

StartDate == 0
EndDate == StartDate + RangeDays

XAU == <<"X", "A", "U">>
XAG == <<"X", "A", "G">>
XPT == <<"X", "P", "T">>

\* rows of raw_materials as select("uuid, symbol") sees them
PricedMaterialRows ==
    {[uuid |-> 21, symbol |-> XAU, api_source |-> 3],
     [uuid |-> 22, symbol |-> XAG, api_source |-> 3],
     [uuid |-> 23, symbol |-> XPT, api_source |-> 1]}

\* what a request can meet: an answer with rates, an answer of a failed
\* request (success false, no rates), rates that are no dictionary, rates
\* without the symbol, and a request that raises (network error)
Faults == {"none", "error_body", "rates_list", "no_symbol", "network"}

\* the dates the API has a price for
ApiDateSets ==
    {StartDate..EndDate,
     {d \in StartDate..EndDate : d % ChunkDays = 0},
     {}}

\* the request of the run that meets the fault
FaultAt == {1, 2, 25}

PriceInputs ==
    [api_dates : ApiDateSets, fault : Faults, fault_at : FaultAt, unique : BOOLEAN]

NoLocals == [raw_materials |-> <<>>, current_start_date |-> StartDate]

PriceInit ==
    /\ files \in PriceInputs
    /\ \E s \in {ApiSourceRows, {r \in ApiSourceRows : r.name # MetalsApi}},
          m \in SUBSET PricedMaterialRows :
          /\ db = [api_sources |-> s, raw_materials |-> m, raw_material_prices |-> {}]
          /\ snap = [api_sources |-> s, raw_materials |-> m, raw_material_prices |-> {}]
    /\ aborted = FALSE
    /\ nextId = 100
    /\ script = "P"
    /\ pc = "fetch_raw_materials"
    /\ idx = 1
    /\ run = 1
    /\ ids = NoLocals
    /\ hist = [requests |-> <<>>, exit |-> -1]

\* lines 17-52, called at line 153 with "Metals API"
fetch_raw_materials_by_api_source ==
    /\ pc = "fetch_raw_materials"
    /\ LET api_source_data == {r \in db.api_sources : r.name = MetalsApi}
           raw_materials_data ==
               {r \in db.raw_materials :
                   \E s \in api_source_data : r.api_source = s.uuid}
       IN \E order \in Orders(raw_materials_data) :
              ids' = [ids EXCEPT !.raw_materials = order]
    /\ pc' = "chunks"
    /\ idx' = 1
    /\ UNCHANGED <<files, db, snap, aborted, nextId, script, run, hist>>

\* the rates of the answer to a request for symbol from start_date to
\* end_date, both included: date -> the symbols with a rate
Rates(symbol, start_date, end_date, fault) ==
    IF fault \in {"error_body", "rates_list"} THEN <<>>
    ELSE [d \in files.api_dates \cap (start_date..end_date) |->
              IF fault = "no_symbol" THEN {} ELSE {symbol}]

\* lines 98-114: price_data, date -> the symbols with a price
PriceData(symbol, rates) ==
    [d \in DOMAIN rates |-> rates[d] \cap {symbol}]

\* store_prices (lines 116-131) for the dates of price_data, in their order;
\* with a unique (raw_material_id, recorded_at) the first insert of a stored
\* date raises and ends the run
RECURSIVE StorePrices(_, _, _)
StorePrices(st, raw_material_id, dates) ==
    IF dates = {} THEN st
    ELSE LET d == CHOOSE x \in dates : \A y \in dates : x <= y IN
         IF files.unique /\ \E r \in st.db : r.raw_material_id = raw_material_id
                                              /\ r.recorded_at = d
         THEN [st EXCEPT !.err = "APIError"]
         ELSE StorePrices([st EXCEPT !.db = @ \cup {[uuid |-> st.nextId,
                                                    raw_material_id |-> raw_material_id,
                                                    recorded_at |-> d]},
                                    !.nextId = @ + 1],
                          raw_material_id, dates \ {d})

\* a request as the history keeps it
Request(material, start_date, end_date, outcome) ==
    [raw_material_id |-> material.uuid, start_date |-> start_date,
     end_date |-> end_date, outcome |-> outcome]

\* the no-data branch without its assignment: the period is not left
SamePeriod(current_start_date, current_end_date) == current_start_date

\* line 179: current_start_date after a period with no data
AfterNoData(current_start_date, current_end_date) == current_end_date

\* lines 154-192: one evaluation of the while condition for the material at
\* idx and, when it holds, the body of the loop
price_chunk ==
    /\ pc = "chunks"
    /\ IF idx > Len(ids.raw_materials)
       THEN /\ pc' = "done"
            /\ hist' = [hist EXCEPT !.exit = 0]
            /\ UNCHANGED <<db, snap, nextId, idx, ids>>
       ELSE IF ~(ids.current_start_date < EndDate)
       THEN /\ idx' = idx + 1
            /\ ids' = [ids EXCEPT !.current_start_date = StartDate]
            /\ UNCHANGED <<db, snap, nextId, pc, hist>>
       ELSE
       LET material == ids.raw_materials[idx]
           current_start_date == ids.current_start_date
           current_end_date == IF current_start_date + ChunkDays > EndDate
                               THEN EndDate ELSE current_start_date + ChunkDays
           fault == IF Len(hist.requests) + 1 = files.fault_at THEN files.fault ELSE "none"
           prices_data == PriceData(material.symbol,
                                    Rates(material.symbol, current_start_date,
                                          current_end_date, fault))
           st == StorePrices([db |-> db.raw_material_prices, nextId |-> nextId, err |-> "none"],
                             material.uuid,
                             {d \in DOMAIN prices_data : material.symbol \in prices_data[d]})
       IN
       IF fault = "network"
       THEN /\ pc' = "crashed"
            /\ hist' = [hist EXCEPT !.requests = Append(@, Request(material, current_start_date,
                                                                  current_end_date, "ConnectionError")),
                                    !.exit = 1]
            /\ UNCHANGED <<db, snap, nextId, idx, ids>>
       ELSE IF DOMAIN prices_data = {}
       THEN /\ ids' = [ids EXCEPT !.current_start_date =
                                       AfterNoData(current_start_date, current_end_date)]
            /\ hist' = [hist EXCEPT !.requests = Append(@, Request(material, current_start_date,
                                                                  current_end_date, "no data"))]
            /\ UNCHANGED <<db, snap, nextId, idx, pc>>
       ELSE /\ db' = [db EXCEPT !.raw_material_prices = st.db]
            /\ snap' = [snap EXCEPT !.raw_material_prices = st.db]
            /\ nextId' = st.nextId
            /\ idx' = idx
            /\ IF st.err # "none"
               THEN /\ pc' = "crashed"
                    /\ hist' = [hist EXCEPT !.requests = Append(@, Request(material, current_start_date,
                                                                          current_end_date, st.err)),
                                            !.exit = 1]
                    /\ UNCHANGED ids
               ELSE /\ pc' = pc
                    /\ ids' = [ids EXCEPT !.current_start_date = current_end_date]
                    /\ hist' = [hist EXCEPT !.requests = Append(@, Request(material, current_start_date,
                                                                          current_end_date, "stored"))]
    /\ UNCHANGED <<files, aborted, script, run>>

PriceNext ==
    \/ fetch_raw_materials_by_api_source
    \/ price_chunk

PriceSpec == PriceInit /\ [][PriceNext]_vars


(* C21 *)
\* the faults that are a failed fetch: a network error, a non-success answer
FailedFetches == {"network", "error_body"}

\* C21: a failed fetch from the external API is fatal for that fetch and
\* surfaced as an error: the request that fails ends the run with an error
\* and is not taken for an answer with no data.
FailedFetchIsSurfaced ==
    \A i \in 1..Len(hist.requests) :
        (i = files.fault_at /\ files.fault \in FailedFetches) =>
            /\ hist.requests[i].outcome \notin {"no data", "stored"}
            /\ pc = "crashed"


(* C22 *)
\* the cells of the source column that names the entities of table t
NameCells(t) ==
    CASE script = "R" /\ t = "raw_materials" ->
             {files.rawA[i]["raw_material_name"] : i \in 1..Len(files.rawA)} \ {NaN}
      [] script = "R" /\ t = "applications" ->
             {files.rawA[i]["application1_name"] : i \in 1..Len(files.rawA)} \ {NaN}
      [] script = "L" /\ t = "cargo_types" ->
             {files.file1[i]["vessel_composition_cargo_type"] : i \in 1..Len(files.file1)} \ {NaN}
      [] OTHER -> {}

\* C22: natural keys are matched exactly after trimming: after a run, two
\* source names that are equal once trimmed have one entity row between them,
\* and two names that differ once trimmed (in letter case, say) have a row each.
ExactMatchAfterTrimming ==
    FirstRunDone =>
        \A t \in {"raw_materials", "applications", "cargo_types"} :
            \A n1, n2 \in NameCells(t) :
                IF Strip(n1) = Strip(n2)
                THEN Cardinality(RowsNamed(db, t, Strip(n1))) = 1
                ELSE /\ RowsNamed(db, t, Strip(n1)) # {}
                     /\ RowsNamed(db, t, Strip(n2)) # {}
                     /\ RowsNamed(db, t, Strip(n1)) \cap RowsNamed(db, t, Strip(n2)) = {}


(* C23 *)
\* the requests made for the raw material with surrogate key m
RequestsFor(m) == {i \in 1..Len(hist.requests) : hist.requests[i].raw_material_id = m}

\* the dates a request asks for, both ends included
DatesOf(i) == hist.requests[i].start_date..hist.requests[i].end_date

\* C23: for each raw material the chunks requested from the API partition
\* the range from start_date to end_date: no date is in two chunks and, when
\* the run is done, every date is in one; and the store holds at most one
\* price row per raw material and date.
ChunksPartitionDateRange ==
    /\ \A i, j \in 1..Len(hist.requests) :
          (i < j /\ hist.requests[i].raw_material_id = hist.requests[j].raw_material_id) =>
              DatesOf(i) \cap DatesOf(j) = {}
    /\ pc = "done" =>
          \A k \in 1..Len(ids.raw_materials) :
              UNION {DatesOf(i) : i \in RequestsFor(ids.raw_materials[k].uuid)}
                  = StartDate..EndDate
    /\ Cardinality({<<r.raw_material_id, r.recorded_at>> : r \in db.raw_material_prices})
          = Cardinality(db.raw_material_prices)


(* C24 *)
\* C24: the chunk loop of a raw material terminates: every iteration, the
\* one that finds no data included, moves current_start_date forward and not
\* past end_date, and the loop is left with current_start_date = end_date.
ChunkLoopAdvancesToEnd ==
    [][(pc = "chunks" /\ idx <= Len(ids.raw_materials)) =>
          /\ (pc' = "chunks" /\ idx' = idx) =>
                /\ ids'.current_start_date > ids.current_start_date
                /\ ids'.current_start_date <= EndDate
          /\ idx' # idx => ids.current_start_date = EndDate]_vars

\* a run has left the loop of its last raw material after a period with no data
LoopEndedAfterNoData ==
    /\ pc = "done"
    /\ ids.raw_materials # <<>>
    /\ \E i \in 1..Len(hist.requests) : hist.requests[i].outcome = "no data"


(* C25 *)
\* the name of raw material r equals, ignoring case, a name of the API's symbols
NameMatches(r) ==
    /\ r.raw_material_name # None
    /\ \E i \in 1..Len(Symbols(files.body)) :
          /\ Symbols(files.body)[i][2].kind = "str"
          /\ Lower(r.raw_material_name) = Lower(Symbols(files.body)[i][2].s)

-----------------------------------------------------------------------------
(* Script C: countries/compare_strapi_countries.py, the country sync.         *)
(* Its runs are behaviours of CountrySpec, which uses the variables this way: *)
(*   files  the inputs: the pages Strapi answers with, the fault of the store *)
(*   db     the tables (every insert is a request committed on its own)       *)
(*   ids    the locals: page, countries, the two fetched lists, the missing   *)
(*   idx    the index of the next element of missing_countries                *)
(*   hist   the pages requested, the messages printed, the store's errors     *)

MaxPages == 2

CountryNames == {<<"k">>, <<"n">>, <<"n", " ">>}

\* what a page request is answered with: the names of data, or a failure
\* (raise_for_status, a network error, a body without the fields)
PageAnswers ==
    {[kind |-> "ok", names |-> <<>>],
     [kind |-> "ok", names |-> <<<<"k">>>>],
     [kind |-> "ok", names |-> <<<<"n">>, <<"n", " ">>>>],
     [kind |-> "ok", names |-> <<<<"n">>, <<"n">>>>],
     [kind |-> "error", names |-> <<>>]}

\* the answers to pages 1, 2, ...; a page after the last one has no country
StrapiPages == UNION {[1..n -> PageAnswers] : n \in 0..MaxPages}

\* the request to the store that fails, and how
StoreFaults == {"none", "fetch_raises", "select_raises", "insert_raises", "insert_no_data"}

CountryInputs == [pages : StrapiPages, fault : StoreFaults, fault_at : {1, 2}]

CountryRows == {[uuid |-> 1, country_name |-> <<"k">>], [uuid |-> 2, country_name |-> <<"n">>]}

NoLists == [page |-> 1, countries |-> <<>>, strapi_countries |-> <<>>,
            supabase_countries |-> <<>>, missing_countries |-> <<>>]

CountryInit ==
    /\ files \in CountryInputs
    /\ \E c \in SUBSET CountryRows :
          /\ db = [countries |-> c]
          /\ snap = [countries |-> c]
    /\ aborted = FALSE
    /\ nextId = 3
    /\ script = "C"
    /\ pc = "fetch_countries_from_strapi"
    /\ idx = 1
    /\ run = 1
    /\ ids = NoLists
    /\ hist = [pages |-> <<>>, out |-> <<>>, store_error |-> FALSE, exit |-> -1]

\* the answer to the request of page p
PageAnswer(p) ==
    IF p <= Len(files.pages) THEN files.pages[p] ELSE [kind |-> "ok", names |-> <<>>]

\* fetch_countries_from_strapi with the pages fetched so far lost on an error
\* kept instead
ReturnOnError(countries) == countries

\* lines 50-52: the list returned when a page request fails
EmptyOnError(countries) == <<>>

\* lines 28-52: one iteration of the while loop of fetch_countries_from_strapi
\* (a page request), the return of the function included
fetch_countries_from_strapi ==
    /\ pc = "fetch_countries_from_strapi"
    /\ LET answer == PageAnswer(ids.page) IN
       /\ hist' = [hist EXCEPT !.pages = Append(@, ids.page),
                               !.out = IF answer.kind = "error"
                                       THEN Append(@, "Error fetching countries from Strapi")
                                       ELSE @]
       /\ IF answer.kind = "error"
          THEN /\ ids' = [ids EXCEPT !.strapi_countries = EmptyOnError(ids.countries)]
               /\ pc' = "fetch_countries_from_supabase"
          ELSE IF answer.names = <<>>
          THEN /\ ids' = [ids EXCEPT !.strapi_countries = ids.countries]
               /\ pc' = "fetch_countries_from_supabase"
          ELSE /\ ids' = [ids EXCEPT !.countries = @ \o answer.names, !.page = @ + 1]
               /\ pc' = pc
    /\ UNCHANGED <<files, db, snap, aborted, nextId, script, idx, run>>

\* lines 55-73
fetch_countries_from_supabase ==
    /\ pc = "fetch_countries_from_supabase"
    /\ IF files.fault = "fetch_raises"
       THEN /\ ids' = [ids EXCEPT !.supabase_countries = <<>>]
            /\ hist' = [hist EXCEPT !.out = Append(@, "Error fetching countries from Supabase"),
                                    !.store_error = TRUE]
       ELSE /\ \E q \in Orders(db.countries) :
                  ids' = [ids EXCEPT !.supabase_countries =
                                        [i \in 1..Len(q) |-> q[i].country_name]]
            /\ UNCHANGED hist
    /\ pc' = "main"
    /\ UNCHANGED <<files, db, snap, aborted, nextId, script, idx, run>>

\* main with "and" for the "or" of line 126
main_returns_if_both_empty ==
    /\ pc = "main"
    /\ IF ids.strapi_countries = <<>> /\ ids.supabase_countries = <<>>
       THEN /\ pc' = "done"
            /\ hist' = [hist EXCEPT !.out = Append(@, "Failed to fetch data from one or both sources."),
                                    !.exit = 0]
            /\ UNCHANGED ids
       ELSE /\ \E q \in Orders(SeqToSet(ids.strapi_countries) \ SeqToSet(ids.supabase_countries)) :
                  ids' = [ids EXCEPT !.missing_countries = q]
            /\ pc' = "add_missing_countries_to_supabase"
            /\ UNCHANGED hist
    /\ idx' = 1
    /\ UNCHANGED <<files, db, snap, aborted, nextId, script, run>>

\* lines 126-141 and compare_countries (150-155): the early return, the set
\* of the countries missing in Supabase, in the order the loop will take them
main ==
    /\ pc = "main"
    /\ IF ids.strapi_countries = <<>> \/ ids.supabase_countries = <<>>
       THEN /\ pc' = "done"
            /\ hist' = [hist EXCEPT !.out = Append(@, "Failed to fetch data from one or both sources."),
                                    !.exit = 0]
            /\ UNCHANGED ids
       ELSE /\ \E q \in Orders(SeqToSet(ids.strapi_countries) \ SeqToSet(ids.supabase_countries)) :
                  ids' = [ids EXCEPT !.missing_countries = q]
            /\ pc' = "add_missing_countries_to_supabase"
            /\ UNCHANGED hist
    /\ idx' = 1
    /\ UNCHANGED <<files, db, snap, aborted, nextId, script, run>>

\* an insert that writes the table anew with the one country
ReplaceCountries(d, country_name, uuid) ==
    [d EXCEPT !.countries = {[uuid |-> uuid, country_name |-> country_name]}]

\* lines 97-102: the countries table after the insert of new_country
InsertCountry(d, country_name, uuid) ==
    [d EXCEPT !.countries = @ \cup {[uuid |-> uuid, country_name |-> country_name]}]

\* lines 88-108: one iteration of the loop of add_missing_countries_to_supabase,
\* and main's lines 145-147 after the loop
add_missing_countries_to_supabase ==
    /\ pc = "add_missing_countries_to_supabase"
    /\ IF idx > Len(ids.missing_countries)
       THEN /\ pc' = "done"
            /\ hist' = [hist EXCEPT !.exit = 0]
            /\ UNCHANGED <<db, snap, nextId, idx>>
       ELSE
       LET country_name == ids.missing_countries[idx]
           fault == IF idx = files.fault_at THEN files.fault ELSE "none"
           existing_country == {r \in db.countries : r.country_name = country_name}
       IN
       IF fault = "select_raises" \/ (fault = "insert_raises" /\ existing_country = {})
       THEN /\ pc' = "done"
            /\ hist' = [hist EXCEPT !.out = Append(@, "Error during Supabase insertion"),
                                    !.store_error = TRUE, !.exit = 0]
            /\ UNCHANGED <<db, snap, nextId, idx>>
       ELSE IF existing_country # {}
       THEN /\ idx' = idx + 1
            /\ hist' = [hist EXCEPT !.out = Append(@, "already exists in Supabase. Skipping.")]
            /\ UNCHANGED <<db, snap, nextId, pc>>
       ELSE IF fault = "insert_no_data"
       THEN /\ idx' = idx + 1
            /\ hist' = [hist EXCEPT !.out = Append(@, "Failed to add country"),
                                    !.store_error = TRUE]
            /\ UNCHANGED <<db, snap, nextId, pc>>
       ELSE /\ db' = InsertCountry(db, country_name, nextId)
            /\ snap' = InsertCountry(db, country_name, nextId)
            /\ nextId' = nextId + 1
            /\ idx' = idx + 1
            /\ hist' = [hist EXCEPT !.out = Append(@, "Added country")]
            /\ pc' = pc
    /\ UNCHANGED <<files, aborted, script, run, ids>>

CountryNext ==
    \/ fetch_countries_from_strapi
    \/ fetch_countries_from_supabase
    \/ main
    \/ add_missing_countries_to_supabase

CountrySpec == CountryInit /\ [][CountryNext]_vars


(* C26 *)
\* C26: add_missing_countries_to_supabase removes and changes no country
\* row and gives no second row to a name that has one, and when it has
\* completed without a store error every name of missing_countries is in the
\* countries table.
MissingCountriesAdded ==
    [][/\ db.countries \subseteq db'.countries
       /\ \A r \in db.countries :
             RowsNamed(db', "countries", r.country_name)
                 = RowsNamed(db, "countries", r.country_name)
       /\ (pc = "add_missing_countries_to_supabase" /\ pc' = "done"
             /\ ~hist'.store_error) =>
             \A i \in 1..Len(ids.missing_countries) :
                 RowsNamed(db', "countries", ids.missing_countries[i]) # {}]_vars

\* the function has completed without a store error after adding a country
\* to a table that held another one
CountryAddedOthersKept ==
    /\ pc = "done"
    /\ ~hist.store_error
    /\ ids.missing_countries # <<>>
    /\ \E r \in db.countries : r.uuid < 3
    /\ \E r \in db.countries : r.uuid >= 3


(* C27 *)
\* C27: the country sync inserts nothing when a fetched list is empty: with
\* an empty Strapi list or an empty Supabase list (after a fetch error too)
\* main returns before it compares, and the countries table stays as it is.
EmptyListInsertsNothing ==
    [][(pc = "main" /\ (ids.strapi_countries = <<>> \/ ids.supabase_countries = <<>>)) =>
          /\ pc' = "done"
          /\ db' = db
          /\ ids'.missing_countries = <<>>]_vars

\* main has returned with countries fetched from Strapi and none from Supabase
ReturnedOnEmptySupabaseList ==
    /\ pc = "done"
    /\ ids.strapi_countries # <<>>
    /\ ids.supabase_countries = <<>>
    /\ ids.missing_countries = <<>>
    /\ hist.out # <<>>


(* C28 *)
\* the names of pages 1..n of the answers, one page after the other
RECURSIVE PagesConcat(_)
PagesConcat(n) == IF n = 0 THEN <<>> ELSE PagesConcat(n - 1) \o PageAnswer(n).names

\* C28: fetch_countries_from_strapi requests the pages 1, 2, 3, ... in
\* order and stops at the first page with no country; it returns the names
\* of the pages before that one, in order, or the empty list when a page
\* request failed, whatever the pages fetched before it.
StrapiPagesInOrder ==
    /\ \A i \in 1..Len(hist.pages) :
          /\ hist.pages[i] = i
          /\ i < Len(hist.pages) =>
                PageAnswer(i).kind = "ok" /\ PageAnswer(i).names # <<>>
    /\ pc # "fetch_countries_from_strapi" =>
          LET last == Len(hist.pages) IN
          /\ last >= 1
          /\ PageAnswer(last).kind = "error" \/ PageAnswer(last).names = <<>>
          /\ ids.strapi_countries =
                IF PageAnswer(last).kind = "error" THEN <<>> ELSE PagesConcat(last - 1)

\* the request of page 2 failed after page 1 had brought countries, and the
\* function returned the empty list
SecondPageFailedListEmpty ==
    /\ pc # "fetch_countries_from_strapi"
    /\ Len(hist.pages) = 2
    /\ PageAnswer(1).names # <<>>
    /\ PageAnswer(2).kind = "error"
    /\ ids.strapi_countries = <<>>


(* C29 *)
\* the source routes insert_routes found a stored route with their slug and
\* another route_name for
RoutesShadowed ==
    {e[4][3] : e \in {d \in Events("duplicate") :
        /\ d[4][2] = "routes"
        /\ \E r \in db.routes : r.slug = d[4][3].slug /\ r.route_name # d[4][3].route_name}}

\* C29: the routes table holds at most one row per slug: a source route
\* whose slug is that of a stored route with another route_name is not
\* inserted, and the route-chokepoint and route-port loads insert no
\* relationship row for it.
OneRoutePerSlug ==
    /\ \A r1, r2 \in db.routes : r1.slug = r2.slug => r1 = r2
    /\ \A route \in RoutesShadowed :
          /\ RowsNamed(db, "routes", route.route_name) = {}
          /\ ~\E l \in Events("linked") :
                 l[4][2] \in RouteLinkTables /\ l[4][3][1] = route.route_name

\* a source route with the slug of a stored route and another name was left
\* out, and the route-chokepoint load found no route for it
ShadowedRouteNotLinked ==
    \E route \in RoutesShadowed :
        \E u \in Events("unresolved") :
            u[4][2] = "routes_choke_points" /\ u[4][3] = <<route.route_name, NaN>>


(* C30 *)
\* C30: insert_ports inserts a port row only for a source row whose country
\* is the name of a stored country and whose port_name is not empty: the
\* row it adds has the trimmed port_name of the source row and the surrogate
\* key of that country as country_id; the step adds no country row.
PortsInsertedForStoredCountry ==
    [][(pc = "insert_ports") =>
          /\ db'.countries = db.countries
          /\ \A p \in db'.country_ports \ db.country_ports :
                LET row == PortsFrame(files.file3)[idx] IN
                /\ p.port_name = Strip(row["port_name"])
                /\ p.port_name # <<>>
                /\ \E c \in db.countries :
                      /\ c.country_name = Strip(row["country"])
                      /\ c.uuid = p.country_id]_vars

\* a run has inserted a port of a stored country and skipped a source row
\* whose country is not stored
PortInsertedOtherSkipped ==
    /\ \E p \in db.country_ports : \E c \in db.countries : c.uuid = p.country_id
    /\ \E e \in Events("unresolved") : e[4][2] = "country_ports" /\ e[1] = run
    /\ \E e \in Events("inserted") : e[4][2] = "country_ports" /\ e[1] = run

=============================================================================
